---------------------------- MODULE Spec2Model ----------------------------
(***************************************************************************)
(* A model of pgp-sign-artifact-action: the file finder                    *)
(* (DefaultFileFinder.FindFiles, findWithGlobstar, shouldExclude), the two *)
(* signer backends (GoPGPSigner, GnuPGSigner), the shared output-extension *)
(* resolver (getOutputExtension) and the orchestrator (run).               *)
(*                                                                         *)
(* Strings are TLA+ strings; a character is a string of length one.        *)
(***************************************************************************)
EXTENDS Naturals, Integers, Sequences, FiniteSets, TLC

(***************************************************************************)
(* Strings (Go package strings).                                           *)
(***************************************************************************)

\* The characters of the model in byte order (Go compares strings bytewise).
CharOrder == "\t\n *-./0123456789?[\\]^abcdefghijklmnopqrstuvwxyz"

At(s, i) == SubSeq(s, i, i)

OrdOf == [c \in { At(CharOrder, i) : i \in 1..Len(CharOrder) } |->
             CHOOSE i \in 1..Len(CharOrder) : At(CharOrder, i) = c]

Ord(c) == OrdOf[c]

Drop(s, n) == SubSeq(s, n + 1, Len(s))

Take(s, n) == SubSeq(s, 1, n)

HasPrefix(s, p) == Len(p) <= Len(s) /\ Take(s, Len(p)) = p

HasSuffix(s, p) == Len(p) <= Len(s) /\ Drop(s, Len(s) - Len(p)) = p

TrimPrefix(s, p) == IF HasPrefix(s, p) THEN Drop(s, Len(p)) ELSE s

TrimSuffix(s, p) == IF HasSuffix(s, p) THEN Take(s, Len(s) - Len(p)) ELSE s

\* The least member of a set of numbers, 0 if the set is empty.
MinOrZero(S) == IF S = {} THEN 0 ELSE CHOOSE i \in S : \A j \in S : i <= j

\* The greatest member of a set of numbers, 0 if the set is empty.
MaxOrZero(S) == IF S = {} THEN 0 ELSE CHOOSE i \in S : \A j \in S : j <= i

\* The first position at which sub occurs in s, 0 if none (strings.Index + 1).
Index(s, sub) == MinOrZero({ i \in 1..(Len(s) + 1) : HasPrefix(Drop(s, i - 1), sub) })

Contains(s, sub) == Index(s, sub) # 0

IsSpace(c) == c \in {" ", "\t", "\n"}

RECURSIVE TrimLeft(_)
TrimLeft(s) ==
    IF s # "" /\ IsSpace(At(s, 1)) THEN TrimLeft(Drop(s, 1)) ELSE s

RECURSIVE TrimRight(_)
TrimRight(s) ==
    IF s # "" /\ IsSpace(At(s, Len(s))) THEN TrimRight(Take(s, Len(s) - 1)) ELSE s

TrimSpace(s) == TrimRight(TrimLeft(s))

\* strings.Split(s, sep) for a non-empty sep: the pieces between the
\* non-overlapping occurrences of sep, found left to right.  splitAt is the
\* split with the first occurrence at position i (0: none).
RECURSIVE StringsSplit(_, _)
splitAt(s, sep, i) ==
    IF i = 0 THEN <<s>>
    ELSE <<Take(s, i - 1)>> \o StringsSplit(Drop(s, i - 1 + Len(sep)), sep)

StringsSplit(s, sep) == splitAt(s, sep, Index(s, sep))

\* strings.ReplaceAll(s, old, new) for a non-empty old.  replaceAt is the
\* replacement with the first occurrence at position i (0: none).
RECURSIVE ReplaceAll(_, _, _)
replaceAt(s, old, new, i) ==
    IF i = 0 THEN s
    ELSE Take(s, i - 1) \o new \o ReplaceAll(Drop(s, i - 1 + Len(old)), old, new)

ReplaceAll(s, old, new) == replaceAt(s, old, new, Index(s, old))

\* Bytewise s < t.
RECURSIVE StrLess(_, _)
StrLess(s, t) ==
    IF t = "" THEN FALSE
    ELSE IF s = "" THEN TRUE
    ELSE IF At(s, 1) = At(t, 1) THEN StrLess(Drop(s, 1), Drop(t, 1))
    ELSE Ord(At(s, 1)) < Ord(At(t, 1))

\* The least string of a non-empty finite set.
LeastString(S) == CHOOSE x \in S : \A y \in S \ {x} : StrLess(x, y)

\* The strings of a finite set in increasing order (slices.Sort).
RECURSIVE SortStrings(_)
sortFrom(S, m) == <<m>> \o SortStrings(S \ {m})

SortStrings(S) == IF S = {} THEN <<>> ELSE sortFrom(S, LeastString(S))

\* The elements of a sequence joined with sep.
RECURSIVE JoinWith(_, _)
JoinWith(q, sep) ==
    IF q = <<>> THEN ""
    ELSE IF Len(q) = 1 THEN q[1]
    ELSE q[1] \o sep \o JoinWith(Tail(q), sep)

Range(q) == { q[i] : i \in DOMAIN q }

(***************************************************************************)
(* Glob matching (Go path/filepath.Match, Unix build: the separator is     *)
(* "/" and "\" escapes).                                                   *)
(***************************************************************************)

Separator == "/"

\* scanChunk's inner loop: the position (0-based) of the first "*" of p that
\* stands outside a bracket expression, Len(p) if none.  c is the character
\* at i.
RECURSIVE scanEnd(_, _, _)
scanFrom(p, i, inrange, c) ==
    IF c = "*" /\ ~inrange THEN i
    ELSE scanEnd(p,
                 IF c = "\\" /\ i + 1 < Len(p) THEN i + 2 ELSE i + 1,
                 IF c = "[" THEN TRUE ELSE IF c = "]" THEN FALSE ELSE inrange)

scanEnd(p, i, inrange) ==
    IF i >= Len(p) THEN Len(p) ELSE scanFrom(p, i, inrange, At(p, i + 1))

RECURSIVE stripStars(_)
stripStars(p) == IF p # "" /\ At(p, 1) = "*" THEN stripStars(Drop(p, 1)) ELSE p

\* scanChunk: the leading stars, the chunk up to the next star, the rest.
\* chunkAt is the result for p, the pattern without its leading stars, and i,
\* the end of its first chunk.
chunkAt(pattern, p, i) ==
    [star |-> p # pattern, chunk |-> Take(p, i), rest |-> Drop(p, i)]

scanChunk(pattern) ==
    chunkAt(pattern, stripStars(pattern), scanEnd(stripStars(pattern), 0, FALSE))

\* getEsc: one (possibly escaped) character of a bracket expression.
\* escChar is getEsc after the escaping backslash, if any, is dropped.
escChar(c1) ==
    IF c1 = "" THEN [r |-> "", nchunk |-> "", err |-> TRUE]
    ELSE [r |-> At(c1, 1), nchunk |-> Drop(c1, 1), err |-> Len(c1) = 1]

getEsc(chunk) ==
    IF chunk = "" \/ At(chunk, 1) = "-" \/ At(chunk, 1) = "]"
    THEN [r |-> "", nchunk |-> "", err |-> TRUE]
    ELSE escChar(IF At(chunk, 1) = "\\" THEN Drop(chunk, 1) ELSE chunk)

\* The upper end of a range whose lower end is lo: what follows "-", or lo.
rangeHi(lo) ==
    IF lo.err THEN lo
    ELSE IF At(lo.nchunk, 1) = "-" THEN getEsc(Drop(lo.nchunk, 1))
    ELSE lo

\* The ranges of a bracket expression, from after "[" or "[^" up to and
\* including the closing "]".  r is the character read from the name ("" once
\* the match has failed, which no range holds).  rangeStep is the loop's body
\* on the range lo-hi.
RECURSIVE parseRanges(_, _, _, _)
rangeStep(r, match, nrange, lo, hi) ==
    IF lo.err \/ hi.err THEN [chunk |-> "", match |-> FALSE, err |-> TRUE]
    ELSE parseRanges(hi.nchunk, r,
             match \/ (r # "" /\ Ord(lo.r) <= Ord(r) /\ Ord(r) <= Ord(hi.r)),
             nrange + 1)

parseRanges(chunk, r, match, nrange) ==
    IF chunk # "" /\ At(chunk, 1) = "]" /\ nrange > 0
    THEN [chunk |-> Drop(chunk, 1), match |-> match, err |-> FALSE]
    ELSE rangeStep(r, match, nrange, getEsc(chunk), rangeHi(getEsc(chunk)))

\* One turn of matchChunk's loop on a non-empty chunk: what is left of the
\* chunk and of s, whether the match has failed, whether the chunk is
\* malformed.  After the match has failed the chunk is still read to its end
\* to find a malformed pattern.  failed is the loop's flag (s ran out or a
\* character differed), s1 is s after the character this turn reads.
classStep(s1, failed, negated, pr) ==
    [chunk |-> pr.chunk, s |-> s1, failed |-> failed \/ (pr.match = negated),
     err |-> pr.err]

bracketStep(c1, s, s1, failed) ==
    classStep(s1, failed, c1 # "" /\ At(c1, 1) = "^",
              parseRanges(IF c1 # "" /\ At(c1, 1) = "^" THEN Drop(c1, 1) ELSE c1,
                          IF failed THEN "" ELSE At(s, 1), FALSE, 0))

literalStep(lit, s, s1, failed) ==
    IF lit = "" THEN [chunk |-> "", s |-> s1, failed |-> TRUE, err |-> TRUE]
    ELSE [chunk |-> Drop(lit, 1), s |-> s1,
          failed |-> failed \/ At(lit, 1) # At(s, 1), err |-> FALSE]

stepOn(chunk, s, s1, failed, c) ==
    IF c = "[" THEN bracketStep(Drop(chunk, 1), s, s1, failed)
    ELSE IF c = "?"
    THEN [chunk |-> Drop(chunk, 1), s |-> s1, failed |-> failed \/ At(s, 1) = Separator,
          err |-> FALSE]
    ELSE literalStep(IF c = "\\" THEN Drop(chunk, 1) ELSE chunk, s, s1, failed)

chunkStep(chunk, s, failed0) ==
    stepOn(chunk, s, IF failed0 \/ s = "" THEN s ELSE Drop(s, 1), failed0 \/ s = "",
           At(chunk, 1))

\* matchChunk: the chunk against a prefix of s.
RECURSIVE matchChunkLoop(_, _, _)
chunkNext(st) ==
    IF st.err THEN [rest |-> "", ok |-> FALSE, err |-> TRUE]
    ELSE matchChunkLoop(st.chunk, st.s, st.failed)

matchChunkLoop(chunk, s, failed0) ==
    IF chunk = ""
    THEN IF failed0 THEN [rest |-> "", ok |-> FALSE, err |-> FALSE]
         ELSE [rest |-> s, ok |-> TRUE, err |-> FALSE]
    ELSE chunkNext(chunkStep(chunk, s, failed0))

matchChunk(chunk, s) == matchChunkLoop(chunk, s, FALSE)

\* Whether what is left of a pattern is malformed (Match's last loop).
RECURSIVE restMalformed(_)
malformedFrom(sc) == matchChunk(sc.chunk, "").err \/ restMalformed(sc.rest)

restMalformed(pattern) ==
    IF pattern = "" THEN FALSE ELSE malformedFrom(scanChunk(pattern))

\* Match's search after a star: the chunk tried at name[i+1:] for i = 0, 1, ...
\* while name[i] is not a separator.  mc is matchChunk's result at i.
RECURSIVE starSearch(_, _, _, _)
searchAt(chunk, rest, name, i, mc) ==
    IF mc.ok /\ ~(rest = "" /\ mc.rest # "")
    THEN [found |-> TRUE, t |-> mc.rest, err |-> FALSE]
    ELSE IF ~mc.ok /\ mc.err THEN [found |-> FALSE, t |-> "", err |-> TRUE]
    ELSE starSearch(chunk, rest, name, i + 1)

starSearch(chunk, rest, name, i) ==
    IF ~(i < Len(name) /\ At(name, i + 1) # Separator)
    THEN [found |-> FALSE, t |-> "", err |-> FALSE]
    ELSE searchAt(chunk, rest, name, i, matchChunk(chunk, Drop(name, i + 1)))

\* Where the chunk sc of the pattern matches in name: at its start (mc is
\* matchChunk's result there) or, after a star, further on.
chunkFound(sc, name, mc) ==
    IF mc.ok /\ (mc.rest = "" \/ sc.rest # "")
    THEN [found |-> TRUE, t |-> mc.rest, err |-> FALSE]
    ELSE IF mc.err THEN [found |-> FALSE, t |-> "", err |-> TRUE]
    ELSE IF sc.star THEN starSearch(sc.chunk, sc.rest, name, 0)
    ELSE [found |-> FALSE, t |-> "", err |-> FALSE]

\* filepath.Match(pattern, name): [matched, err]; err is ErrBadPattern.
\* matchRest goes on with the rest of the pattern from where the chunk
\* matched; matchFrom is the body of Match's loop on the chunk sc.
RECURSIVE Match(_, _)
matchRest(sc, t) ==
    IF t.found THEN Match(sc.rest, t.t)
    ELSE IF t.err THEN [matched |-> FALSE, err |-> TRUE]
    ELSE [matched |-> FALSE, err |-> restMalformed(sc.rest)]

matchFrom(sc, name) ==
    IF sc.star /\ sc.chunk = ""
    THEN [matched |-> ~Contains(name, Separator), err |-> FALSE]
    ELSE matchRest(sc, chunkFound(sc, name, matchChunk(sc.chunk, name)))

Match(pattern, name) ==
    IF pattern = "" THEN [matched |-> name = "", err |-> FALSE]
    ELSE matchFrom(scanChunk(pattern), name)

(***************************************************************************)
(* Paths (Go path/filepath, Unix build).                                   *)
(***************************************************************************)

IsRooted(path) == path # "" /\ At(path, 1) = Separator

\* Clean's pass over the elements of a path: empty and "." elements are
\* dropped, ".." removes the element before it (at the root it is dropped, at
\* the start of a relative path it is kept).
cleanPush(out, rooted, e) ==
    IF e = "" \/ e = "." THEN out
    ELSE IF e = ".."
    THEN IF out # <<>> /\ out[Len(out)] # ".."
         THEN SubSeq(out, 1, Len(out) - 1)
         ELSE IF rooted THEN out
         ELSE Append(out, e)
    ELSE Append(out, e)

RECURSIVE cleanElems(_, _, _)
cleanElems(elems, out, rooted) ==
    IF elems = <<>> THEN out
    ELSE cleanElems(Tail(elems), cleanPush(out, rooted, Head(elems)), rooted)

\* filepath.Clean; cleanOut is Clean given the cleaned elements joined.
cleanOut(rooted, out) ==
    IF rooted THEN Separator \o out
    ELSE IF out = "" THEN "." ELSE out

Clean(path) ==
    IF path = "" THEN "."
    ELSE cleanOut(IsRooted(path),
                  JoinWith(cleanElems(StringsSplit(path, Separator), <<>>, IsRooted(path)),
                           Separator))

\* filepath.Join of two elements
Join(a, b) ==
    IF a # "" THEN Clean(a \o Separator \o b)
    ELSE IF b # "" THEN Clean(b)
    ELSE ""

RECURSIVE stripTrailingSlashes(_)
stripTrailingSlashes(path) ==
    IF path # "" /\ At(path, Len(path)) = Separator
    THEN stripTrailingSlashes(Take(path, Len(path) - 1))
    ELSE path

\* The position of the last separator of a path, 0 if it has none.
LastSep(path) == MaxOrZero({ i \in 1..Len(path) : At(path, i) = Separator })

\* A path from after its last separator.
afterLastSep(path) == Drop(path, LastSep(path))

\* filepath.Base; baseOf is Base given the last element.
baseOf(b) == IF b = "" THEN Separator ELSE b

Base(path) ==
    IF path = "" THEN "." ELSE baseOf(afterLastSep(stripTrailingSlashes(path)))

\* filepath.Split: the directory (with its final separator) and the file.
SplitPath(path) ==
    [dir |-> Take(path, LastSep(path)), file |-> afterLastSep(path)]

\* The elements of a cleaned path ("/" and "." have none).
elemsOf(q) == IF q = "" \/ q = "." THEN <<>> ELSE StringsSplit(q, Separator)

Elems(cleaned) == elemsOf(IF IsRooted(cleaned) THEN Drop(cleaned, 1) ELSE cleaned)

\* The length of the longest common prefix of two sequences.
RECURSIVE CommonLen(_, _)
CommonLen(a, b) ==
    IF a # <<>> /\ b # <<>> /\ Head(a) = Head(b)
    THEN 1 + CommonLen(Tail(a), Tail(b))
    ELSE 0

\* filepath.Rel(basepath, targpath): [path, err].  relCleaned is Rel on cleaned
\* paths, relElems on their elements, relLeft on what is left of the elements
\* after the common prefix.
relLeft(bleft, tleft) ==
    IF bleft # <<>> /\ Head(bleft) = ".." THEN [path |-> "", err |-> TRUE]
    ELSE [path |-> JoinWith([i \in 1..Len(bleft) |-> ".."] \o tleft, Separator),
          err |-> FALSE]

relCommon(be, te, k) == relLeft(SubSeq(be, k + 1, Len(be)), SubSeq(te, k + 1, Len(te)))

relElems(be, te) == relCommon(be, te, CommonLen(be, te))

relCleaned(base, targ) ==
    IF targ = base THEN [path |-> ".", err |-> FALSE]
    ELSE IF IsRooted(base) # IsRooted(targ) THEN [path |-> "", err |-> TRUE]
    ELSE relElems(Elems(base), Elems(targ))

Rel(basepath, targpath) == relCleaned(Clean(basepath), Clean(targpath))

\* hasMeta: whether a path holds a character Match gives a meaning to.
hasMeta(path) == \E i \in 1..Len(path) : At(path, i) \in {"*", "?", "[", "\\"}

\* cleanGlobPath: the directory part of a pattern, ready for glob.
cleanGlobPath(path) ==
    IF path = "" THEN "."
    ELSE IF path = Separator THEN path
    ELSE Take(path, Len(path) - 1)

(***************************************************************************)
(* The file tree.  A tree is a record: files and dirs are sets of absolute *)
(* cleaned paths (every parent of a member is in dirs), cwd is the         *)
(* process's current directory, and gone holds the paths a directory       *)
(* listing still names but stat and lstat fail on (removed or unreadable   *)
(* in between).                                                            *)
(***************************************************************************)

Abs(fs, path) == IF IsRooted(path) THEN Clean(path) ELSE Join(fs.cwd, path)

\* os.Lstat and os.Stat succeed (the model has no symbolic links).
StatOK(fs, path) == Abs(fs, path) \in (fs.files \cup fs.dirs) \ fs.gone

IsDir(fs, path) == Abs(fs, path) \in fs.dirs

\* The entries of the directory with absolute path d.
Entries(fs, d) == { n \in fs.files \cup fs.dirs : n # d /\ Join(n, "..") = d }

\* The names a directory listing returns, sorted (Readdirnames, slices.Sort).
ReadDirNames(fs, dir) == SortStrings({ Base(q) : q \in Entries(fs, Abs(fs, dir)) })

\* glob: the entries of dir whose name matches pattern, appended to matches.
\* globName is the loop's body on the first name, m the result of Match on it.
RECURSIVE globNames(_, _, _, _)
globName(dir, pattern, names, matches, m) ==
    IF m.err THEN [matches |-> matches, err |-> TRUE]
    ELSE globNames(dir, pattern, Tail(names),
                   IF m.matched THEN Append(matches, Join(dir, Head(names)))
                   ELSE matches)

globNames(dir, pattern, names, matches) ==
    IF names = <<>> THEN [matches |-> matches, err |-> FALSE]
    ELSE globName(dir, pattern, names, matches, Match(pattern, Head(names)))

glob(fs, dir, pattern, matches) ==
    IF ~StatOK(fs, dir) \/ ~IsDir(fs, dir) THEN [matches |-> matches, err |-> FALSE]
    ELSE globNames(dir, pattern, ReadDirNames(fs, dir), matches)

\* Glob's loop over the directories its recursive call returned; g is glob's
\* result on the first of them.
RECURSIVE globDirs(_, _, _, _)
globDir(fs, dirs, file, g) ==
    IF g.err THEN g ELSE globDirs(fs, Tail(dirs), file, g.matches)

globDirs(fs, dirs, file, matches) ==
    IF dirs = <<>> THEN [matches |-> matches, err |-> FALSE]
    ELSE globDir(fs, dirs, file, glob(fs, Head(dirs), file, matches))

\* filepath.Glob(pattern): [matches, err]; err is ErrBadPattern.  globIn is
\* Glob once the pattern is split into dir and file, globUnder is Glob given
\* the result m of the recursive call on dir.
RECURSIVE Glob(_, _)
globUnder(fs, m, file) == IF m.err THEN m ELSE globDirs(fs, m.matches, file, <<>>)

globIn(fs, pattern, dir, file) ==
    IF ~hasMeta(dir) THEN glob(fs, dir, file, <<>>)
    ELSE IF dir = pattern THEN [matches |-> <<>>, err |-> TRUE]
    ELSE globUnder(fs, Glob(fs, dir), file)

Glob(fs, pattern) ==
    IF Match(pattern, "").err THEN [matches |-> <<>>, err |-> TRUE]
    ELSE IF ~hasMeta(pattern)
    THEN [matches |-> IF StatOK(fs, pattern) THEN <<pattern>> ELSE <<>>, err |-> FALSE]
    ELSE globIn(fs, pattern, cleanGlobPath(SplitPath(pattern).dir), SplitPath(pattern).file)

\* filepath.Walk(root, fn) with the callback of findWithGlobstar: the paths
\* the callback sees with a nil error and not a directory, in walk order
\* (a directory's entries sorted, a subtree before the next entry).
RECURSIVE walk(_, _), walkNames(_, _, _)
walk(fs, path) ==
    IF ~StatOK(fs, path) THEN <<>>
    ELSE IF ~IsDir(fs, path) THEN <<path>>
    ELSE walkNames(fs, path, ReadDirNames(fs, path))

walkNames(fs, path, names) ==
    IF names = <<>> THEN <<>>
    ELSE walk(fs, Join(path, Head(names))) \o walkNames(fs, path, Tail(names))

(***************************************************************************)
(* The file finder.                                                        *)
(***************************************************************************)

\* The text of filepath.ErrBadPattern.
ErrBadPattern == "syntax error in pattern"

\* fmt's %q on a character and on a string: quoted, with backslashes,
\* newlines and tabs escaped.
escapeChar(c) ==
    IF c = "\\" THEN "\\\\"
    ELSE IF c = "\n" THEN "\\n"
    ELSE IF c = "\t" THEN "\\t"
    ELSE c

RECURSIVE escapeQ(_)
escapeQ(s) == IF s = "" THEN "" ELSE escapeChar(At(s, 1)) \o escapeQ(Drop(s, 1))

Quote(s) == "\"" \o escapeQ(s) \o "\""

\* isMatch with the error of Match taken for a match.
isMatchOrError(pattern, name) == Match(pattern, name).matched \/ Match(pattern, name).err

\* Whether Match reports a match (its error dropped, as shouldExclude does).
isMatch(pattern, name) == Match(pattern, name).matched

\* shouldExclude's handling of "**" in an exclude pattern.
excludedSimple(exclude, simplePattern, file, relPath) ==
    /\ Contains(exclude, "**")
    /\ simplePattern # ""
    /\ \/ isMatch(simplePattern, Base(file))
       \/ isMatch(simplePattern, relPath)

\* excludedBy without the match against the base name.
excludedByPathOnly(exclude, file, workDir, relPath) ==
    /\ exclude # ""
    /\ \/ isMatch(exclude, relPath)
       \/ isMatch(Join(workDir, exclude), file)

\* shouldExclude for one trimmed exclude pattern: the body of the loop.
excludedBy(exclude, file, workDir, relPath) ==
    /\ exclude # ""
    /\ \/ isMatch(exclude, relPath)
       \/ isMatch(exclude, Base(file))
       \/ excludedSimple(exclude,
                         ReplaceAll(ReplaceAll(exclude, "**" \o Separator, ""), "**", ""),
                         file, relPath)
       \/ isMatch(Join(workDir, exclude), file)

\* shouldExclude's loop, relPath being the file relative to workDir.
excludedAt(file, workDir, excludes, relPath) ==
    \E i \in DOMAIN excludes : excludedBy(TrimSpace(excludes[i]), file, workDir, relPath)

\* The path shouldExclude matches as relative: the file itself if Rel fails.
relOrFile(file, rel) == IF rel.err THEN file ELSE rel.path

\* shouldExclude(file, workDir, excludes)
shouldExclude(file, workDir, excludes) ==
    excludedAt(file, workDir, excludes, relOrFile(file, Rel(workDir, file)))

\* The callback of findWithGlobstar on one regular file of the walk: whether
\* the file is appended.  m is the result of Match on the file's base name.
keepsAfterBase(suffix, searchDir, path, m) ==
    IF ~m.err /\ m.matched THEN TRUE
    ELSE isMatch(suffix, Rel(searchDir, path).path)

globstarKeeps(suffix, searchDir, path) ==
    \/ suffix = ""
    \/ keepsAfterBase(suffix, searchDir, path, Match(suffix, Base(path)))

\* findWithGlobstar's walk of searchDir.
globstarWalk(fs, suffix, searchDir) ==
    [matches |-> SelectSeq(walk(fs, searchDir),
                           LAMBDA path : globstarKeeps(suffix, searchDir, path)),
     err |-> FALSE]

\* findWithGlobstar once the pattern is split at "**".
globstarParts(fs, workDir, pattern, parts) ==
    IF Len(parts) # 2
    THEN Glob(fs, Join(workDir, ReplaceAll(pattern, "**", "*")))
    ELSE globstarWalk(fs, TrimPrefix(parts[2], Separator),
                      IF TrimSuffix(parts[1], Separator) = "" THEN workDir
                      ELSE Join(workDir, TrimSuffix(parts[1], Separator)))

\* findWithGlobstar(workDir, pattern): [matches, err]
findWithGlobstar(fs, workDir, pattern) ==
    globstarParts(fs, workDir, pattern, StringsSplit(pattern, "**"))

\* addGlobstarMatches without the exclusion test.
RECURSIVE addGlobstarMatchesUnfiltered(_, _, _, _)
addGlobstarMatchesUnfiltered(matches, matchedFiles, workDir, excludes) ==
    IF matches = <<>> THEN matchedFiles
    ELSE addGlobstarMatchesUnfiltered(Tail(matches),
             IF Head(matches) \notin Range(matchedFiles)
             THEN Append(matchedFiles, Head(matches))
             ELSE matchedFiles,
             workDir, excludes)

\* addGlobstarMatches without the test of seen.
RECURSIVE addGlobstarMatchesRepeating(_, _, _, _)
addGlobstarMatchesRepeating(matches, matchedFiles, workDir, excludes) ==
    IF matches = <<>> THEN matchedFiles
    ELSE addGlobstarMatchesRepeating(Tail(matches),
             IF ~shouldExclude(Head(matches), workDir, excludes)
             THEN Append(matchedFiles, Head(matches))
             ELSE matchedFiles,
             workDir, excludes)

\* The matches of a "**" pattern that FindFiles appends (lines 41-46).
RECURSIVE addGlobstarMatches(_, _, _, _)
addGlobstarMatches(matches, matchedFiles, workDir, excludes) ==
    IF matches = <<>> THEN matchedFiles
    ELSE addGlobstarMatches(Tail(matches),
             IF /\ Head(matches) \notin Range(matchedFiles)
                /\ ~shouldExclude(Head(matches), workDir, excludes)
             THEN Append(matchedFiles, Head(matches))
             ELSE matchedFiles,
             workDir, excludes)

\* The matches of a plain pattern that FindFiles appends (lines 55-74).
RECURSIVE addGlobMatches(_, _, _, _, _)
addGlobMatches(fs, matches, matchedFiles, workDir, excludes) ==
    IF matches = <<>> THEN matchedFiles
    ELSE addGlobMatches(fs, Tail(matches),
             IF \/ Head(matches) \in Range(matchedFiles)
                \/ ~StatOK(fs, Head(matches))
                \/ IsDir(fs, Head(matches))
                \/ shouldExclude(Head(matches), workDir, excludes)
             THEN matchedFiles
             ELSE Append(matchedFiles, Head(matches)),
             workDir, excludes)

\* The loop of FindFiles over the patterns: [files, err], err "" for nil.
\* findGlobstar and findPlain are the two branches of the body on a pattern
\* and its matches g; findPattern is the body on the trimmed pattern.
RECURSIVE findLoop(_, _, _, _, _)
findGlobstar(fs, workDir, patterns, excludes, matchedFiles, g) ==
    IF g.err THEN [files |-> <<>>, err |-> ErrBadPattern]
    ELSE findLoop(fs, workDir, Tail(patterns), excludes,
                  addGlobstarMatches(g.matches, matchedFiles, workDir, excludes))

findPlain(fs, workDir, patterns, excludes, matchedFiles, pattern, g) ==
    IF g.err
    THEN [files |-> <<>>,
          err |-> "invalid glob pattern " \o Quote(pattern) \o ": " \o ErrBadPattern]
    ELSE findLoop(fs, workDir, Tail(patterns), excludes,
                  addGlobMatches(fs, g.matches, matchedFiles, workDir, excludes))

findPattern(fs, workDir, patterns, excludes, matchedFiles, pattern) ==
    IF pattern = "" THEN findLoop(fs, workDir, Tail(patterns), excludes, matchedFiles)
    ELSE IF Contains(pattern, "**")
    THEN findGlobstar(fs, workDir, patterns, excludes, matchedFiles,
                      findWithGlobstar(fs, workDir, pattern))
    ELSE findPlain(fs, workDir, patterns, excludes, matchedFiles, pattern,
                   Glob(fs, Join(workDir, pattern)))

findLoop(fs, workDir, patterns, excludes, matchedFiles) ==
    IF patterns = <<>> THEN [files |-> matchedFiles, err |-> ""]
    ELSE findPattern(fs, workDir, patterns, excludes, matchedFiles,
                     TrimSpace(Head(patterns)))

\* DefaultFileFinder.FindFiles(workDir, patterns, excludes)
FindFiles(fs, workDir, patterns, excludes) ==
    findLoop(fs, IF workDir = "" THEN "." ELSE workDir, patterns, excludes, <<>>)

(***************************************************************************)
(* Signing options and the output extension (signer.go).                   *)
(***************************************************************************)

SignOptions == [Armor : BOOLEAN, DetachSign : BOOLEAN, ClearSign : BOOLEAN]

\* getOutputExtension with ClearSign tested last.
getOutputExtensionClearLast(opts) ==
    IF opts.Armor THEN ".asc"
    ELSE IF opts.DetachSign THEN ".sig"
    ELSE IF opts.ClearSign THEN ".asc"
    ELSE ".gpg"

\* getOutputExtension(opts)
getOutputExtension(opts) ==
    IF opts.ClearSign THEN ".asc"
    ELSE IF opts.Armor THEN ".asc"
    ELSE IF opts.DetachSign THEN ".sig"
    ELSE ".gpg"

(***************************************************************************)
(* The library-backed signer (GoPGPSigner).  A key is a record: text is    *)
(* the armored text, valid whether it parses, private whether it holds a   *)
(* private key, protection the passphrase it is locked with ("" if none).  *)
(* The content of a file is a record: kind is "plain" for a file of the    *)
(* tree and the signature mode for an artifact, armored whether it is      *)
(* ASCII-armored, body the signed bytes.                                   *)
(***************************************************************************)

\* NewGoPGPSigner with the unlock attempted whether or not a passphrase is
\* supplied.
NewGoPGPSignerAlwaysUnlock(armoredKey, passphrase, unlockPlainOK) ==
    LET none == [backend |-> "none", key |-> armoredKey, passphrase |-> ""]
        fail(msg) == [ok |-> FALSE, err |-> msg, signer |-> none]
        unlockOK == IF armoredKey.protection = "" THEN unlockPlainOK
                    ELSE passphrase = armoredKey.protection
        locked == armoredKey.protection # "" /\ passphrase = ""
    IN  IF ~armoredKey.valid THEN fail("failed to parse private key: gopenpgp: error in reading key ring")
        ELSE IF ~armoredKey.private THEN fail("provided key is not a private key")
        ELSE IF ~unlockOK
        THEN fail("failed to unlock private key: gopenpgp: error in unlocking key")
        ELSE IF locked THEN fail("private key is locked but no passphrase provided")
        ELSE [ok |-> TRUE, err |-> "",
              signer |-> [backend |-> "gopgp", key |-> armoredKey, passphrase |-> ""]]

\* NewGoPGPSigner(armoredKey, passphrase): [ok, err, signer].  unlockPlainOK
\* is the library's answer to unlocking a key that is not locked.
NewGoPGPSigner(armoredKey, passphrase, unlockPlainOK) ==
    LET none == [backend |-> "none", key |-> armoredKey, passphrase |-> ""]
        fail(msg) == [ok |-> FALSE, err |-> msg, signer |-> none]
        unlockOK == IF armoredKey.protection = "" THEN unlockPlainOK
                    ELSE passphrase = armoredKey.protection
        locked == armoredKey.protection # "" /\ passphrase = ""
    IN  IF ~armoredKey.valid THEN fail("failed to parse private key: gopenpgp: error in reading key ring")
        ELSE IF ~armoredKey.private THEN fail("provided key is not a private key")
        ELSE IF passphrase # "" /\ ~unlockOK
        THEN fail("failed to unlock private key: gopenpgp: error in unlocking key")
        ELSE IF locked THEN fail("private key is locked but no passphrase provided")
        ELSE [ok |-> TRUE, err |-> "",
              signer |-> [backend |-> "gopgp", key |-> armoredKey, passphrase |-> ""]]

\* createDetachedSignature(pgp, data, armor)
createDetachedSignature(data, armor) ==
    [kind |-> "detached", armored |-> armor, body |-> data.body]

\* createClearSignature(pgp, data): the cleartext framework is armored text.
createClearSignature(data) ==
    [kind |-> "clear", armored |-> TRUE, body |-> data.body]

\* createInlineSignature(pgp, data, armor)
createInlineSignature(data, armor) ==
    [kind |-> "inline", armored |-> armor, body |-> data.body]

\* SignFile's choice with ClearSign tested before DetachSign.
goSignatureClearFirst(data, opts) ==
    IF opts.ClearSign THEN createClearSignature(data)
    ELSE IF opts.DetachSign THEN createDetachedSignature(data, opts.Armor)
    ELSE createInlineSignature(data, opts.Armor)

\* The signature GoPGPSigner.SignFile creates for opts (lines 137-143).
goSignature(data, opts) ==
    IF opts.DetachSign THEN createDetachedSignature(data, opts.Armor)
    ELSE IF opts.ClearSign THEN createClearSignature(data)
    ELSE createInlineSignature(data, opts.Armor)

\* getOutputPath with the extension left off the inline signature's path.
getOutputPathBare(filePath, opts) ==
    IF opts.DetachSign THEN filePath \o getOutputExtension(opts)
    ELSE IF opts.ClearSign THEN filePath \o ".asc"
    ELSE filePath

\* GoPGPSigner.getOutputPath(filePath, opts)
getOutputPath(filePath, opts) ==
    IF opts.DetachSign THEN filePath \o getOutputExtension(opts)
    ELSE IF opts.ClearSign THEN filePath \o ".asc"
    ELSE filePath \o getOutputExtension(opts)

\* What one GoPGPSigner.SignFile call can meet: every step succeeds, the
\* read fails, the signing fails, the write fails.
GoOutcomes == {"ok", "read", "sign", "write"}

\* The error of the create...Signature method SignFile calls for opts, when
\* the library fails to sign.
goSignError(opts) ==
    IF opts.DetachSign THEN "failed to create detached signature: gopenpgp: unable to sign"
    ELSE IF opts.ClearSign THEN "failed to create clear signature: gopenpgp: unable to sign"
    ELSE "failed to create signature: gopenpgp: unable to sign"

\* os.WriteFile(name, content, 0644) on the tree.
WriteFile(tree, name, content) ==
    [tree EXCEPT !.files = @ \cup {Abs(tree, name)},
                 !.data = [q \in DOMAIN @ \cup {Abs(tree, name)} |->
                             IF q = Abs(tree, name) THEN content ELSE @[q]]]

\* os.ReadFile(name) succeeds.
Readable(tree, name) == Abs(tree, name) \in tree.files \ tree.gone

\* GoPGPSigner.SignFile putting the artifact in the place of the input file:
\* the artifact is written and the input is gone.
GoSignFileMoving(tree, filePath, opts, o) ==
    IF o = "read" \/ ~Readable(tree, filePath)
    THEN [err |-> "failed to read file: open " \o filePath \o ": no such file or directory",
          ext |-> "", written |-> "", fs |-> tree]
    ELSE IF o = "sign"
    THEN [err |-> goSignError(opts), ext |-> "", written |-> "", fs |-> tree]
    ELSE IF o = "write"
    THEN [err |-> "failed to write signature: open " \o getOutputPath(filePath, opts)
                      \o ": permission denied",
          ext |-> getOutputExtension(opts), written |-> "", fs |-> tree]
    ELSE [err |-> "", ext |-> getOutputExtension(opts),
          written |-> getOutputPath(filePath, opts),
          fs |-> [WriteFile(tree, getOutputPath(filePath, opts),
                            goSignature(tree.data[Abs(tree, filePath)], opts))
                     EXCEPT !.gone = @ \cup {Abs(tree, filePath)}]]

\* GoPGPSigner.SignFile(filePath, opts) on a tree with outcome o:
\* [err, ext, written, fs]; ext is the extension getOutputPath derives (its
\* local ext), "" if the call does not get there.
GoSignFile(tree, filePath, opts, o) ==
    IF o = "read" \/ ~Readable(tree, filePath)
    THEN [err |-> "failed to read file: open " \o filePath \o ": no such file or directory",
          ext |-> "", written |-> "", fs |-> tree]
    ELSE IF o = "sign"
    THEN [err |-> goSignError(opts), ext |-> "", written |-> "", fs |-> tree]
    ELSE IF o = "write"
    THEN [err |-> "failed to write signature: open " \o getOutputPath(filePath, opts)
                      \o ": permission denied",
          ext |-> getOutputExtension(opts), written |-> "", fs |-> tree]
    ELSE [err |-> "", ext |-> getOutputExtension(opts),
          written |-> getOutputPath(filePath, opts),
          fs |-> WriteFile(tree, getOutputPath(filePath, opts),
                           goSignature(tree.data[Abs(tree, filePath)], opts))]

(***************************************************************************)
(* The external-process-backed signer (GnuPGSigner) and the gpg process.   *)
(***************************************************************************)

\* buildArgs with one flag for each option that is set.
buildArgsEachFlag(passphrase, opts) ==
    <<"--batch", "--yes">>
    \o (IF passphrase # ""
        THEN <<"--pinentry-mode", "loopback", "--passphrase-fd", "0">> ELSE <<>>)
    \o (IF opts.Armor THEN <<"--armor">> ELSE <<>>)
    \o (IF opts.DetachSign THEN <<"--detach-sign">> ELSE <<>>)
    \o (IF opts.ClearSign THEN <<"--clear-sign">> ELSE <<>>)
    \o (IF ~opts.DetachSign /\ ~opts.ClearSign THEN <<"--sign">> ELSE <<>>)

\* buildArgs with the passphrase handed to gpg as an argument.
buildArgsWithPassphrase(passphrase, opts) ==
    <<"--batch", "--yes">>
    \o (IF passphrase # ""
        THEN <<"--pinentry-mode", "loopback", "--passphrase", passphrase>> ELSE <<>>)
    \o (IF opts.Armor THEN <<"--armor">> ELSE <<>>)
    \o (IF opts.DetachSign THEN <<"--detach-sign">>
        ELSE IF opts.ClearSign THEN <<"--clear-sign">>
        ELSE <<"--sign">>)

\* GnuPGSigner.buildArgs(opts), for a signer holding passphrase
buildArgs(passphrase, opts) ==
    <<"--batch", "--yes">>
    \o (IF passphrase # ""
        THEN <<"--pinentry-mode", "loopback", "--passphrase-fd", "0">> ELSE <<>>)
    \o (IF opts.Armor THEN <<"--armor">> ELSE <<>>)
    \o (IF opts.DetachSign THEN <<"--detach-sign">>
        ELSE IF opts.ClearSign THEN <<"--clear-sign">>
        ELSE <<"--sign">>)

\* The command GnuPGSigner.SignFile runs: [argv, stdin] (lines 37-44).
gpgCommand(passphrase, filePath, opts) ==
    [argv |-> Append(buildArgs(passphrase, opts), filePath), stdin |-> passphrase]

\* The commands of gpg that make a signature.
GpgModeFlags == {"--detach-sign", "--clear-sign", "--sign"}

\* The signature mode gpg takes from its arguments.
gpgMode(argv) ==
    IF "--detach-sign" \in Range(argv) THEN "detached"
    ELSE IF "--clear-sign" \in Range(argv) THEN "clear"
    ELSE IF "--sign" \in Range(argv) THEN "inline"
    ELSE "none"

\* Whether gpg's output is ASCII-armored: a clear-text signature always is.
gpgArmored(argv) == "--armor" \in Range(argv) \/ gpgMode(argv) = "clear"

\* The file gpg writes when no --output is given: the input's name and a
\* suffix for the mode and the armoring.
gpgOutputPath(argv) ==
    argv[Len(argv)] \o (IF gpgArmored(argv) THEN ".asc"
                        ELSE IF gpgMode(argv) = "detached" THEN ".sig"
                        ELSE ".gpg")

\* importGPGKey(armoredKey): gpg --batch --import.  The import of text that
\* holds no key fails; any run of gpg can fail (gpg missing, ...).
GpgImportOutcomes(armoredKey) == IF armoredKey.valid THEN {"ok", "fail"} ELSE {"fail"}

\* NewGnuPGSigner(armoredKey, passphrase) with import outcome o:
\* [ok, err, signer].
NewGnuPGSigner(armoredKey, passphrase, o) ==
    IF o = "ok"
    THEN [ok |-> TRUE, err |-> "",
          signer |-> [backend |-> "gnupg", key |-> armoredKey, passphrase |-> passphrase]]
    ELSE [ok |-> FALSE, err |-> "failed to import GPG key: exit status 2",
          signer |-> [backend |-> "none", key |-> armoredKey, passphrase |-> ""]]

\* Whether gpg can sign with what the trust store holds and what it reads on
\* its standard input.
gpgCanSign(keyring, cmd) ==
    \E k \in keyring :
        /\ k.private
        /\ \/ k.protection = ""
           \/ /\ "--passphrase-fd" \in Range(cmd.argv)
              /\ cmd.stdin = k.protection

\* What gpg writes for its arguments on the file with content data.
gpgSignature(argv, data) ==
    [kind |-> gpgMode(argv), armored |-> gpgArmored(argv), body |-> data.body]

\* What a gpg that exits with a status other than 0 has written on its
\* standard error, which SignFile connects to the standard error of the
\* action (lines 46-47).
gpgDiagnostic(tree, ring, cmd, filePath) ==
    IF ~Readable(tree, filePath)
    THEN "gpg: can't open '" \o filePath \o "': no such file or directory"
    ELSE IF ~gpgCanSign(ring, cmd) THEN "gpg: signing failed: no secret key"
    ELSE "gpg: signing failed: general error"

\* The run of gpg on cmd: [err, ext, written, fs, cmd]; exitOK is whether a
\* gpg that can sign does exit with status 0.
gpgRun(tree, ring, cmd, filePath, exitOK) ==
    IF exitOK /\ Readable(tree, filePath) /\ gpgCanSign(ring, cmd)
    THEN [err |-> "", ext |-> "", written |-> gpgOutputPath(cmd.argv), cmd |-> cmd,
          fs |-> WriteFile(tree, gpgOutputPath(cmd.argv),
                           gpgSignature(cmd.argv, tree.data[Abs(tree, filePath)]))]
    ELSE [err |-> "gpg command failed: exit status 2", ext |-> "", written |-> "",
          cmd |-> cmd, fs |-> tree]

\* GnuPGSigner.SignFile(filePath, opts) of a signer holding passphrase.
GnuPGSignFile(tree, ring, passphrase, filePath, opts, exitOK) ==
    gpgRun(tree, ring, gpgCommand(passphrase, filePath, opts), filePath, exitOK)

\* The backends (files_test.go, lines 251-255).
BackendGoPGP == "gopgp"

BackendGnuPG == "gnupg"

(***************************************************************************)
(* The orchestrator: run(args, nil, nil, log), as main calls it.           *)
(***************************************************************************)

VARIABLES
    args,     \* ActionInputs: the parsed inputs of the run
    env,      \* the environment: GITHUB_WORKSPACE, and whether Getwd succeeds
    fs,       \* the file tree
    keyring,  \* the keys the gpg trust store holds
    pc,       \* where run stands
    signer,   \* the Signer run holds
    query,    \* the arguments of the FindFiles call
    found,    \* what FindFiles returned
    idx,      \* the position in found.files of the next file to sign
    calls,    \* the SignFile calls made, in order
    result,   \* the error run returned ("" is nil), once pc = "done"
    log,      \* the records run handed to the logger, in order
    prevRun   \* the end of the run before this one, if the action ran before

vars == <<args, env, fs, keyring, pc, signer, query, found, idx, calls, result, log, prevRun>>

\* NewSigner with the library-backed signer as the default.
NewSignerDefaulting(backend, privateKey, passphrase, o) ==
    IF backend = BackendGnuPG THEN NewGnuPGSigner(privateKey, passphrase, o)
    ELSE NewGoPGPSigner(privateKey, passphrase, o = "ok")

\* NewSigner(backend, privateKey, passphrase); o is what the backend's
\* constructor meets: [ok, err, signer].
NewSigner(backend, privateKey, passphrase, o) ==
    IF backend = BackendGoPGP THEN NewGoPGPSigner(privateKey, passphrase, o = "ok")
    ELSE IF backend = BackendGnuPG THEN NewGnuPGSigner(privateKey, passphrase, o)
    ELSE [ok |-> FALSE, err |-> "unknown signer backend: " \o backend,
          signer |-> [backend |-> "none", key |-> privateKey, passphrase |-> ""]]

\* What the constructor of a backend can meet.
NewSignerOutcomes(backend, privateKey) ==
    IF backend = BackendGoPGP THEN {"ok", "fail"}
    ELSE IF backend = BackendGnuPG THEN GpgImportOutcomes(privateKey)
    ELSE {"fail"}

\* parseMultilineInput, line 402: every line trimmed.
trimAll(lines) == [i \in DOMAIN lines |-> TrimSpace(lines[i])]

\* parseMultilineInput keeping the lines as they were written.
parseMultilineInputUntrimmed(input) ==
    SelectSeq(StringsSplit(input, "\n"), LAMBDA line : TrimSpace(line) # "")

\* parseMultilineInput, lines 398-408: the trimmed lines that are not empty.
parseMultilineInput(input) ==
    SelectSeq(trimAll(StringsSplit(input, "\n")), LAMBDA line : line # "")

\* optsOf with a clear-text signature made armored in the options.
optsOfNormalised(a) ==
    [Armor |-> a.Armor \/ a.ClearSign, DetachSign |-> a.DetachSign, ClearSign |-> a.ClearSign]

\* The SignOptions run builds from its inputs (lines 357-361).
optsOf(a) == [Armor |-> a.Armor, DetachSign |-> a.DetachSign, ClearSign |-> a.ClearSign]

BoolStr(b) == IF b THEN "true" ELSE "false"

\* A log record: level, message, attributes as <<key, value>> pairs.
Rec(level, msg, attrs) == [level |-> level, msg |-> msg, attrs |-> attrs]

NoSigner == [backend |-> "none", key |-> [text |-> "", valid |-> FALSE, private |-> FALSE,
                                          protection |-> ""], passphrase |-> ""]

NotFound == [done |-> FALSE, files |-> <<>>, err |-> ""]

NoQuery == [workDir |-> "", patterns |-> <<>>, excludes |-> <<>>]

\* The import of the key whatever the backend.
importGPGKeyAnyBackend(ring, backend, armoredKey, o) ==
    IF o = "ok" THEN ring \cup {armoredKey} ELSE ring

\* importGPGKey (signer_gnupg.go, lines 27-33), which NewGnuPGSigner calls:
\* the trust store after the constructor of the backend met outcome o.
importGPGKey(ring, backend, armoredKey, o) ==
    IF backend = BackendGnuPG /\ o = "ok" THEN ring \cup {armoredKey} ELSE ring

\* CreateSigner with the passphrase itself in the first record.
CreateSignerLeaking ==
    /\ pc = "start"
    /\ \E o \in NewSignerOutcomes(args.Backend, args.PrivateKey) :
         LET new == NewSigner(args.Backend, args.PrivateKey, args.Passphrase, o)
             first == <<Rec("DEBUG", "Starting PGP Sign Artifact Action",
                            << <<"backend", args.Backend>>,
                               <<"armor", BoolStr(args.Armor)>>,
                               <<"detach_sign", BoolStr(args.DetachSign)>>,
                               <<"clear_sign", BoolStr(args.ClearSign)>>,
                               <<"passphrase", args.Passphrase>> >>),
                       Rec("DEBUG", "Creating signer", << <<"backend", args.Backend>> >>)>>
         IN  /\ keyring' = importGPGKey(keyring, args.Backend, args.PrivateKey, o)
             /\ IF new.ok
                THEN /\ signer' = new.signer
                     /\ log' = log \o first \o <<Rec("DEBUG", "Signer created successfully", <<>>)>>
                     /\ pc' = "workdir"
                     /\ result' = result
                ELSE /\ signer' = signer
                     /\ log' = log \o first
                     /\ pc' = "done"
                     /\ result' = "failed to create signer: " \o new.err
    /\ UNCHANGED <<args, env, fs, query, found, idx, calls, prevRun>>

\* run, lines 320-337: the first records, and the signer.
CreateSigner ==
    /\ pc = "start"
    /\ \E o \in NewSignerOutcomes(args.Backend, args.PrivateKey) :
         LET new == NewSigner(args.Backend, args.PrivateKey, args.Passphrase, o)
             first == <<Rec("DEBUG", "Starting PGP Sign Artifact Action",
                            << <<"backend", args.Backend>>,
                               <<"armor", BoolStr(args.Armor)>>,
                               <<"detach_sign", BoolStr(args.DetachSign)>>,
                               <<"clear_sign", BoolStr(args.ClearSign)>>,
                               <<"has_passphrase", BoolStr(args.Passphrase # "")>> >>),
                       Rec("DEBUG", "Creating signer", << <<"backend", args.Backend>> >>)>>
         IN  /\ keyring' = importGPGKey(keyring, args.Backend, args.PrivateKey, o)
             /\ IF new.ok
                THEN /\ signer' = new.signer
                     /\ log' = log \o first \o <<Rec("DEBUG", "Signer created successfully", <<>>)>>
                     /\ pc' = "workdir"
                     /\ result' = result
                ELSE /\ signer' = signer
                     /\ log' = log \o first
                     /\ pc' = "done"
                     /\ result' = "failed to create signer: " \o new.err
    /\ UNCHANGED <<args, env, fs, query, found, idx, calls, prevRun>>

\* run, lines 344-355: the working directory.
ResolveWorkDir ==
    /\ pc = "workdir"
    /\ LET w1 == IF args.WorkDir = "" THEN env.GITHUB_WORKSPACE ELSE args.WorkDir
       IN  IF w1 = "" /\ ~env.cwdOK
           THEN /\ pc' = "done"
                /\ result' = "failed to get working directory: getwd: no such file or directory"
                /\ UNCHANGED <<query, log>>
           ELSE LET workDir == IF w1 = "" THEN fs.cwd ELSE w1
                IN  /\ query' = [query EXCEPT !.workDir = workDir]
                    /\ log' = Append(log, Rec("DEBUG", "Working directory resolved",
                                              << <<"workdir", workDir>> >>))
                    /\ pc' = "find"
                    /\ result' = result
    /\ UNCHANGED <<args, env, fs, keyring, signer, found, idx, calls, prevRun>>

\* findOutcome with an empty list reported as an error.
findOutcomeEmptyFails(got) ==
    IF got.err # ""
    THEN [pc |-> "done", result |-> "failed to find files: " \o got.err, records |-> <<>>]
    ELSE IF Len(got.files) = 0
    THEN [pc |-> "done", result |-> "no files matched the specified patterns",
          records |-> <<Rec("DEBUG", "Files matched", << <<"count", "0">> >>)>>]
    ELSE [pc |-> "sign", result |-> "",
          records |-> <<Rec("DEBUG", "Files matched",
                            << <<"count", ToString(Len(got.files))>> >>),
                        Rec("INFO", "Starting to sign files",
                            << <<"count", ToString(Len(got.files))>> >>)>>]

\* run, lines 371-383: what follows the finder's answer got, a list of
\* count files or an error: [pc, result, records].
findOutcome(got) ==
    LET count == << <<"count", ToString(Len(got.files))>> >>
    IN  IF got.err # ""
        THEN [pc |-> "done", result |-> "failed to find files: " \o got.err, records |-> <<>>]
        ELSE IF Len(got.files) = 0
        THEN [pc |-> "done", result |-> "",
              records |-> <<Rec("DEBUG", "Files matched", count),
                            Rec("WARN", "No files matched the specified patterns", <<>>)>>]
        ELSE [pc |-> "sign", result |-> "",
              records |-> <<Rec("DEBUG", "Files matched", count),
                            Rec("INFO", "Starting to sign files", count)>>]

\* FindStep with the list of a later run in the opposite order.
FindStepUnstable ==
    /\ pc = "find"
    /\ LET patterns == parseMultilineInput(args.Files)
           excludes == parseMultilineInput(args.Excludes)
           got == FindFiles(fs, query.workDir, patterns, excludes)
           files == IF prevRun.ended
                    THEN [i \in DOMAIN got.files |-> got.files[Len(got.files) + 1 - i]]
                    ELSE got.files
           configured == Rec("DEBUG", "File patterns configured",
                             << <<"patterns", "[" \o JoinWith(patterns, " ") \o "]">>,
                                <<"excludes", "[" \o JoinWith(excludes, " ") \o "]">> >>)
           next == findOutcome(got)
       IN  /\ query' = [query EXCEPT !.patterns = patterns, !.excludes = excludes]
           /\ found' = [done |-> TRUE, files |-> files, err |-> got.err]
           /\ log' = log \o <<configured>> \o next.records
           /\ pc' = next.pc
           /\ result' = next.result
    /\ idx' = 1
    /\ UNCHANGED <<args, env, fs, keyring, signer, calls, prevRun>>

\* run, lines 363-383: the patterns, the finder, the empty result.
FindStep ==
    /\ pc = "find"
    /\ LET patterns == parseMultilineInput(args.Files)
           excludes == parseMultilineInput(args.Excludes)
           got == FindFiles(fs, query.workDir, patterns, excludes)
           configured == Rec("DEBUG", "File patterns configured",
                             << <<"patterns", "[" \o JoinWith(patterns, " ") \o "]">>,
                                <<"excludes", "[" \o JoinWith(excludes, " ") \o "]">> >>)
           next == findOutcome(got)
       IN  /\ query' = [query EXCEPT !.patterns = patterns, !.excludes = excludes]
           /\ found' = [done |-> TRUE, files |-> got.files, err |-> got.err]
           /\ log' = log \o <<configured>> \o next.records
           /\ pc' = next.pc
           /\ result' = next.result
    /\ idx' = 1
    /\ UNCHANGED <<args, env, fs, keyring, signer, calls, prevRun>>

\* Signer.SignFile(filePath, opts) of the signer s with outcome o:
\* [err, ext, written, fs, cmd].
SignFile(s, tree, ring, filePath, opts, o) ==
    IF s.backend = BackendGnuPG
    THEN GnuPGSignFile(tree, ring, s.passphrase, filePath, opts, o = "ok")
    ELSE [cmd |-> [argv |-> <<>>, stdin |-> ""]] @@ GoSignFile(tree, filePath, opts, o)

\* What one SignFile call of a backend can meet.
SignOutcomes(backend) == IF backend = BackendGnuPG THEN {"ok", "fail"} ELSE GoOutcomes

\* wrapSignError without the file.
wrapSignErrorBare(file, err) == "failed to sign file: " \o err

\* run, line 388: the error of a failed SignFile call, with the file.
wrapSignError(file, err) == "failed to sign file " \o file \o ": " \o err

\* loopStep going on to the next file after a failed call.
loopStepContinue(file, err, i) ==
    IF err # ""
    THEN [pc |-> "sign", result |-> wrapSignError(file, err), idx |-> i + 1]
    ELSE [pc |-> "sign", result |-> "", idx |-> i + 1]

\* run, lines 387-391: what follows the SignFile call for the file at
\* position i, which returned err: [pc, result, idx].
loopStep(file, err, i) ==
    IF err # ""
    THEN [pc |-> "done", result |-> wrapSignError(file, err), idx |-> i]
    ELSE [pc |-> "sign", result |-> "", idx |-> i + 1]

\* run, lines 385-391: one turn of the loop over the files.
SignStep ==
    /\ pc = "sign"
    /\ idx <= Len(found.files)
    /\ \E o \in SignOutcomes(signer.backend) :
         LET file == found.files[idx]
             opts == optsOf(args)
             r == SignFile(signer, fs, keyring, file, opts, o)
             call == [file |-> file, opts |-> opts, backend |-> signer.backend,
                      err |-> r.err, ext |-> r.ext, written |-> r.written, cmd |-> r.cmd]
             next == loopStep(file, r.err, idx)
         IN  /\ calls' = Append(calls, call)
             /\ fs' = r.fs
             /\ log' = log \o <<Rec("INFO", "Signing file", << <<"file", file>> >>)>>
                           \o (IF r.err = ""
                               THEN <<Rec("DEBUG", "File signed successfully",
                                          << <<"file", file>> >>)>>
                               ELSE <<>>)
             /\ pc' = next.pc
             /\ result' = next.result
             /\ idx' = next.idx
    /\ UNCHANGED <<args, env, keyring, signer, query, found, prevRun>>

\* run, lines 393-394: every file is signed.
Finish ==
    /\ pc = "sign"
    /\ idx > Len(found.files)
    /\ log' = Append(log, Rec("INFO", "Successfully signed all files",
                              << <<"count", ToString(Len(found.files))>> >>))
    /\ pc' = "done"
    /\ result' = ""
    /\ UNCHANGED <<args, env, fs, keyring, signer, query, found, idx, calls, prevRun>>

(***************************************************************************)
(* The inputs the model is checked on.                                     *)
(***************************************************************************)

PlainData(text) == [kind |-> "plain", armored |-> FALSE, body |-> text]

\* A tree of regular files under the directories dirs.
MkTree(files, dirs, gone) ==
    [files |-> files, dirs |-> dirs \cup {"/", "/w"}, cwd |-> "/w", gone |-> gone,
     data |-> [q \in files |-> PlainData(Base(q))]]

\* The tree of a release build.
TreeRun ==
    MkTree({"/w/a.t", "/w/d/a.t", "/w/d/c.s", "/w/dist/a.tar.gz", "/w/dist/b.sha256"},
           {"/w/d", "/w/dist"}, {})

KeyGarbage == [text |-> "not a valid key", valid |-> FALSE, private |-> FALSE, protection |-> ""]

KeyPublic == [text |-> "pgp public key block", valid |-> TRUE, private |-> FALSE, protection |-> ""]

KeyPlain == [text |-> "pgp private key block", valid |-> TRUE, private |-> TRUE,
             protection |-> ""]

KeyLocked == [text |-> "pgp private key block, locked", valid |-> TRUE, private |-> TRUE,
              protection |-> "secret123"]

Keys == {KeyGarbage, KeyPublic, KeyPlain, KeyLocked}

Passphrases == {"", "secret123", "wrongpass"}

Backends == {BackendGoPGP, BackendGnuPG, "pgp"}

FilesInputs == {"dist/*", "*.t\n\n  d/* \n", "**/*.t", "d/*.t", "*.none", "[", " \n\t\n"}

ExcludesInputs == {"", "*.sha256", "*.sha256\nc.s"}

\* Where the working directory comes from: the input, the environment, the
\* current directory, or nowhere (Getwd fails).
WorkDirCases ==
    { [WorkDir |-> "/w", GITHUB_WORKSPACE |-> "", cwdOK |-> TRUE],
      [WorkDir |-> "", GITHUB_WORKSPACE |-> "/w", cwdOK |-> TRUE],
      [WorkDir |-> "", GITHUB_WORKSPACE |-> "", cwdOK |-> TRUE],
      [WorkDir |-> "", GITHUB_WORKSPACE |-> "", cwdOK |-> FALSE] }

\* The inputs every signer is run on: three files, nothing excluded, the
\* working directory given.
ThreeFiles == "*.t\n\n  d/* \n"

GivenWorkDir == [WorkDir |-> "/w", GITHUB_WORKSPACE |-> "", cwdOK |-> TRUE]

\* The signer every file input is run with.
DetachedArmored == [Armor |-> TRUE, DetachSign |-> TRUE, ClearSign |-> FALSE]

\* The inputs of a run.
Inputs(b, k, p, o, f, e, w) ==
    [PrivateKey |-> k, Passphrase |-> p, Armor |-> o.Armor,
     DetachSign |-> o.DetachSign, ClearSign |-> o.ClearSign,
     Files |-> f, Excludes |-> e, WorkDir |-> w.WorkDir, Backend |-> b]

\* The state of a run before its first step, on given inputs.
NoInputs == Inputs("", KeyGarbage, "", DetachedArmored, "", "", GivenWorkDir)

\* No run before this one.
NoRun ==
    [ended |-> FALSE, args |-> NoInputs, result |-> "", query |-> NoQuery, found |-> NotFound,
     calls |-> <<>>, log |-> <<>>]

RunStart(b, k, p, o, f, e, w, tree) ==
    /\ args = Inputs(b, k, p, o, f, e, w)
    /\ env = [GITHUB_WORKSPACE |-> w.GITHUB_WORKSPACE, cwdOK |-> w.cwdOK]
    /\ fs = tree
    /\ keyring = {}
    /\ pc = "start"
    /\ signer = NoSigner
    /\ query = NoQuery
    /\ found = NotFound
    /\ idx = 1
    /\ calls = <<>>
    /\ result = ""
    /\ log = <<>>

\* One run of the action: every backend, key, passphrase and option triple
\* on the three files, and every file input, exclusion and working directory
\* with the library-backed signer.
Init ==
    /\ \E b \in Backends, k \in Keys, p \in Passphrases, o \in SignOptions,
          f \in FilesInputs, e \in ExcludesInputs, w \in WorkDirCases :
          /\ \/ f = ThreeFiles /\ e = "" /\ w = GivenWorkDir
             \/ b = BackendGoPGP /\ k = KeyPlain /\ p = "" /\ o = DetachedArmored
          /\ RunStart(b, k, p, o, f, e, w, TreeRun)
    /\ prevRun = NoRun

Next == CreateSigner \/ ResolveWorkDir \/ FindStep \/ SignStep \/ Finish

Spec == Init /\ [][Next]_vars

(***************************************************************************)
(* Two runs of the action, one after the other on the same tree (main is   *)
(* entered once per workflow step).                                        *)
(***************************************************************************)

RerunFiles == {"**/*.t", "d/*.t", "d/*", "*.none", "["}

\* The action is run again, on other files or with another key or
\* passphrase: the run that ended is kept in prevRun.
Restart ==
    /\ pc = "done"
    /\ ~prevRun.ended
    /\ prevRun' = [ended |-> TRUE, args |-> args, result |-> result, query |-> query,
                    found |-> found, calls |-> calls, log |-> log]
    /\ \E f \in RerunFiles, k \in Keys, p \in Passphrases :
          /\ f = args.Files \/ (k = args.PrivateKey /\ p = args.Passphrase)
          /\ args' = [args EXCEPT !.Files = f, !.PrivateKey = k, !.Passphrase = p]
    /\ pc' = "start"
    /\ signer' = NoSigner
    /\ query' = NoQuery
    /\ found' = NotFound
    /\ idx' = 1
    /\ calls' = <<>>
    /\ result' = ""
    /\ log' = <<>>
    /\ UNCHANGED <<env, fs, keyring>>

InitTwo ==
    /\ \E b \in {BackendGoPGP, BackendGnuPG}, p \in {"", "secret123"}, f \in RerunFiles :
          RunStart(b, KeyPlain, p, DetachedArmored, f, "", GivenWorkDir, TreeRun)
    /\ prevRun = NoRun

NextTwo == CreateSigner \/ ResolveWorkDir \/ FindStep \/ SignStep \/ Finish \/ Restart

SpecTwo == InitTwo /\ [][NextTwo]_vars

(***************************************************************************)
(* The file finder on its own: one call of FindFiles, as the finder's      *)
(* tests make it.                                                          *)
(***************************************************************************)

\* The most include patterns and exclude patterns of a call.
MaxIncludes == 2

MaxExcludes == 1

\* The sequences over S of length at most n.
SeqsUpTo(S, n) == UNION { [1..k -> S] : k \in 0..n }

\* A tree with a directory that matches "*.t", a directory next to the
\* deepest file, and a file that is listed but cannot be examined.
TreeOdd ==
    MkTree({"/w/a.t", "/w/b.s", "/w/d/a.t", "/w/d/e/f.t"},
           {"/w/d", "/w/d/e", "/w/d/e/x", "/w/m.t"}, {"/w/b.s"})

FindTrees == {TreeRun, TreeOdd}

FindWorkDirs == {"/w", ""}

\* A plain pattern, a recursive one, one with spaces around it, one with
\* two "**" (the fallback), a malformed one.
IncludePool == {"*.t", "**/*.t", " d/* ", "**/e/**", "["}

\* Excludes for each matching rule: base name, relative path, "**"
\* stripped, joined to the working directory, and a malformed one.
ExcludePool == {"a.t", "d/*", "**/a.t", "d/e/f.t", "["}

\* Every list of patterns is run on the tree in which each pattern of the
\* pools has something to match.
InitFind ==
    /\ \E w \in FindWorkDirs,
          ps \in SeqsUpTo(IncludePool, MaxIncludes),
          es \in SeqsUpTo(ExcludePool, MaxExcludes) :
          /\ fs = TreeOdd
          /\ query = [workDir |-> w, patterns |-> ps, excludes |-> es]
    /\ pc = "call"
    /\ args = NoInputs
    /\ env = [GITHUB_WORKSPACE |-> "", cwdOK |-> TRUE]
    /\ keyring = {}
    /\ signer = NoSigner
    /\ found = NotFound
    /\ idx = 1
    /\ calls = <<>>
    /\ result = ""
    /\ log = <<>>
    /\ prevRun = NoRun

\* finder.FindFiles(workDir, patterns, excludes)
FindCall ==
    /\ pc = "call"
    /\ found' = [done |-> TRUE] @@ FindFiles(fs, query.workDir, query.patterns, query.excludes)
    /\ pc' = "returned"
    /\ UNCHANGED <<args, env, fs, keyring, signer, query, idx, calls, result, log, prevRun>>

NextFind == FindCall

SpecFind == InitFind /\ [][NextFind]_vars

(***************************************************************************)
(* The file finder on recursive patterns: one call of FindFiles with one   *)
(* pattern that holds "**", alone or after a plain pattern.                *)
(***************************************************************************)

\* Recursive patterns: every depth, under a prefix, a named file, a suffix
\* of two segments (from the working directory and under a prefix), spaces
\* around, malformed ones with one "**" and with two, and two "**" (around
\* a directory name, around a piece of a file name).
RecursivePool ==
    {"**/*.t", "d/**/*.t", "d/**/a.t", "**/e/*.t", "d/**/e/f.t", " **/a.t ",
     "**/[", "**/[/**", "**/e/**", "**.s**"}

\* The recursive pattern stands alone or after a plain one; the excludes are
\* those of the plain calls and malformed ones that hold "**".
InitRecursive ==
    /\ \E tree \in FindTrees, w \in FindWorkDirs, lead \in {<<>>, <<"*.t">>},
          p \in RecursivePool,
          es \in SeqsUpTo(ExcludePool \cup {"**/[", "[**"}, MaxExcludes) :
          /\ fs = tree
          /\ query = [workDir |-> w, patterns |-> Append(lead, p), excludes |-> es]
    /\ pc = "call"
    /\ args = NoInputs
    /\ env = [GITHUB_WORKSPACE |-> "", cwdOK |-> TRUE]
    /\ keyring = {}
    /\ signer = NoSigner
    /\ found = NotFound
    /\ idx = 1
    /\ calls = <<>>
    /\ result = ""
    /\ log = <<>>
    /\ prevRun = NoRun

SpecRecursive == InitRecursive /\ [][NextFind]_vars

(***************************************************************************)
(* The file finder with one pattern given both as the include pattern and  *)
(* as the exclude pattern.                                                 *)
(***************************************************************************)

\* A tree with a file three directories down.
TreeDeep ==
    MkTree({"/w/a.t", "/w/d/a.t", "/w/d/e/f.t", "/w/d/e/x/g.t"},
           {"/w/d", "/w/d/e", "/w/d/e/x"}, {})

InitSymmetry ==
    /\ \E tree \in FindTrees \cup {TreeDeep}, w \in FindWorkDirs,
          p \in IncludePool \cup RecursivePool :
          /\ fs = tree
          /\ query = [workDir |-> w, patterns |-> <<p>>, excludes |-> <<p>>]
    /\ pc = "call"
    /\ args = NoInputs
    /\ env = [GITHUB_WORKSPACE |-> "", cwdOK |-> TRUE]
    /\ keyring = {}
    /\ signer = NoSigner
    /\ found = NotFound
    /\ idx = 1
    /\ calls = <<>>
    /\ result = ""
    /\ log = <<>>
    /\ prevRun = NoRun

SpecSymmetry == InitSymmetry /\ [][NextFind]_vars

(***************************************************************************)
(* Properties.                                                             *)
(***************************************************************************)

\* The working directory FindFiles works in ("." for an empty one).
EffectiveWorkDir == IF query.workDir = "" THEN "." ELSE query.workDir

\* C1, exclusion closure: no path FindFiles returns satisfies shouldExclude
\* for the exclude patterns of the call, whichever include pattern and branch
\* found it.
ExclusionClosure ==
    found.done =>
        \A i \in DOMAIN found.files :
            ~shouldExclude(found.files[i], EffectiveWorkDir, query.excludes)

\* A call that returned files and left out one the include patterns match.
ExclusionClosureWitness ==
    /\ found.done
    /\ found.files # <<>>
    /\ \E f \in Range(FindFiles(fs, query.workDir, query.patterns, <<>>).files) :
           /\ f \notin Range(found.files)
           /\ shouldExclude(f, EffectiveWorkDir, query.excludes)

\* The extension table as the documentation gives it, row by row.
ExtensionTable ==
    [o \in SignOptions |->
        CASE o.ClearSign -> ".asc"
          [] ~o.ClearSign /\ o.Armor -> ".asc"
          [] ~o.ClearSign /\ ~o.Armor /\ o.DetachSign -> ".sig"
          [] ~o.ClearSign /\ ~o.Armor /\ ~o.DetachSign -> ".gpg"]

\* The calls of the library-backed signer that derived an output path.
Resolved == { i \in DOMAIN calls : calls[i].backend = BackendGoPGP /\ calls[i].ext # "" }

\* C2, extension table: the extension getOutputExtension returns for the
\* options of a call is ".asc" with ClearSign, else ".asc" with Armor, else
\* ".sig" with DetachSign, else ".gpg".
ExtensionCorrect ==
    \A i \in Resolved : calls[i].ext = ExtensionTable[calls[i].opts]

\* ClearSign forces ".asc" though Armor is false and DetachSign is true.
ExtensionCorrectWitness ==
    \E i \in Resolved :
        /\ calls[i].opts = [Armor |-> FALSE, DetachSign |-> TRUE, ClearSign |-> TRUE]
        /\ calls[i].ext = ".asc"

\* The calls that wrote an artifact, of one backend.
Written(backend) ==
    { i \in DOMAIN calls : calls[i].backend = backend /\ calls[i].err = "" }

\* The content of the artifact a call wrote.
Artifact(i) == fs.data[Abs(fs, calls[i].written)]

\* The signature mode the options ask for: DetachSign before ClearSign.
ModeOf(o) == IF o.DetachSign THEN "detached" ELSE IF o.ClearSign THEN "clear" ELSE "inline"

\* Whether the signature the options ask for is armored: a clear-text one
\* always, the others with Armor.
ArmoredOf(o) == IF ModeOf(o) = "clear" THEN TRUE ELSE o.Armor

\* C3, signing mode precedence of GoPGPSigner.SignFile: a detached signature
\* with DetachSign (armored iff Armor), else a clear-text one with ClearSign
\* (always armored), else an inline one (armored iff Armor).
ModePrecedence ==
    \A i \in Written(BackendGoPGP) :
        /\ Artifact(i).kind = ModeOf(calls[i].opts)
        /\ Artifact(i).armored = ArmoredOf(calls[i].opts)

\* A detached binary signature made though ClearSign is set.
ModePrecedenceWitness ==
    \E i \in Written(BackendGoPGP) :
        /\ calls[i].opts = [Armor |-> FALSE, DetachSign |-> TRUE, ClearSign |-> TRUE]
        /\ Artifact(i).kind = "detached"
        /\ ~Artifact(i).armored

\* The calls of the external-process-backed signer.
GpgCalls == { i \in DOMAIN calls : calls[i].backend = BackendGnuPG }

\* The mode flags among the arguments of a command.
ModeFlagsOf(argv) == { j \in DOMAIN argv : argv[j] \in GpgModeFlags }

\* C4, backend equivalence of the signing mode: the arguments buildArgs
\* passes to gpg select the mode and the armoring of the signature
\* GoPGPSigner.SignFile makes for the same options, and hold exactly one mode
\* flag.
BackendModeEquivalence ==
    \A i \in GpgCalls :
        /\ gpgMode(calls[i].cmd.argv) = goSignature(PlainData(""), calls[i].opts).kind
        /\ gpgArmored(calls[i].cmd.argv) = goSignature(PlainData(""), calls[i].opts).armored
        /\ Cardinality(ModeFlagsOf(calls[i].cmd.argv)) = 1

\* gpg run with both DetachSign and ClearSign set.
BackendModeEquivalenceWitness ==
    \E i \in GpgCalls :
        /\ calls[i].opts.DetachSign
        /\ calls[i].opts.ClearSign
        /\ calls[i].err = ""
        /\ "--detach-sign" \in Range(calls[i].cmd.argv)

\* C5, output naming is backend-independent: whichever signer made a call,
\* the artifact is written to the input path with the extension
\* getOutputExtension gives for the options.
SharedOutputNaming ==
    \A i \in Written(BackendGoPGP) \cup Written(BackendGnuPG) :
        calls[i].written = calls[i].file \o getOutputExtension(calls[i].opts)

\* C6: GoPGPSigner.getOutputPath returns the input path with the extension
\* getOutputExtension gives, never the input path itself, and the signed
\* file is not written to.
OutputPathAppends ==
    \A i \in Written(BackendGoPGP) :
        /\ calls[i].written = calls[i].file \o getOutputExtension(calls[i].opts)
        /\ calls[i].written # calls[i].file
        /\ fs.data[Abs(fs, calls[i].file)] = TreeRun.data[Abs(fs, calls[i].file)]

\* The plain inline signature of a file, written next to it.
OutputPathAppendsWitness ==
    \E i \in Written(BackendGoPGP) :
        /\ calls[i].opts = [Armor |-> FALSE, DetachSign |-> FALSE, ClearSign |-> FALSE]
        /\ calls[i].written = calls[i].file \o ".gpg"

\* C7, fail-fast ordering: the SignFile calls are a prefix of the finder's
\* list, in its order, each file once; the whole list when every call
\* succeeds; a failed call is the last one, the run is over, its error names
\* the file, and the artifacts written before it stay.
FailFastOrdering ==
    /\ Len(calls) <= Len(found.files)
    /\ \A i \in DOMAIN calls : calls[i].file = found.files[i]
    /\ \A i, j \in DOMAIN calls : i # j => calls[i].file # calls[j].file
    /\ \A i \in DOMAIN calls :
           IF calls[i].err = ""
           THEN Abs(fs, calls[i].written) \in fs.files
           ELSE /\ i = Len(calls)
                /\ pc = "done"
                /\ result = "failed to sign file " \o found.files[i] \o ": " \o calls[i].err
    /\ (pc = "done" /\ found.done /\ found.err = "" /\ Written(signer.backend) = DOMAIN calls)
           => Len(calls) = Len(found.files)

\* Three files, the second fails: the first is signed, the third not tried.
FailFastOrderingWitness ==
    /\ pc = "done"
    /\ Len(found.files) = 3
    /\ Len(calls) = 2
    /\ calls[1].err = ""
    /\ calls[2].err # ""

\* The number of files a run signed.
SignedCount(cs) == Cardinality({ i \in DOMAIN cs : cs[i].err = "" })

\* The terminal state of a run that found fnd and made the calls cs: total
\* success (all files signed), partial success (a file signed, one failed),
\* total failure (nothing signed).
Terminal(fnd, cs) ==
    IF fnd.done /\ fnd.err = "" /\ SignedCount(cs) = Len(fnd.files) THEN "success"
    ELSE IF SignedCount(cs) > 0 THEN "partial"
    ELSE "failure"

\* Two runs have ended, the one before in prevRun.
BothEnded == prevRun.ended /\ pc = "done"

\* C8 as stated: no two runs that end in different terminal states return
\* the same outcome.
OutcomeTellsTerminalState ==
    (BothEnded /\ Terminal(prevRun.found, prevRun.calls) # Terminal(found, calls))
        => prevRun.result # result

\* C8 as amended: the outcome is nil exactly after total success, and the
\* error of a failed call names the file of the call, whether files were
\* signed before it or not; a run that succeeded and one that did not never
\* return the same outcome.
OutcomeTellsSuccess ==
    /\ pc = "done" =>
           /\ result = "" <=> Terminal(found, calls) = "success"
           /\ \A i \in DOMAIN calls :
                  calls[i].err # "" =>
                      result = "failed to sign file " \o calls[i].file \o ": " \o calls[i].err
    /\ (BothEnded /\ "success" \in {Terminal(prevRun.found, prevRun.calls),
                                    Terminal(found, calls)}
                  /\ Terminal(prevRun.found, prevRun.calls) # Terminal(found, calls))
           => prevRun.result # result

\* A run of total success after a run of partial success.
OutcomeTellsSuccessWitness ==
    /\ BothEnded
    /\ Terminal(prevRun.found, prevRun.calls) = "partial"
    /\ Terminal(found, calls) = "success"
    /\ calls # <<>>
    /\ prevRun.result # "" /\ result = ""

\* The records of the log above the debug level.
Notices == { i \in DOMAIN log : log[i].level # "DEBUG" }

\* C9: when the finder returns an empty list, run returns nil, the one
\* record it emits above the debug level is a warning, and SignFile is never
\* called.
EmptyListIsNoOp ==
    (found.done /\ found.err = "" /\ found.files = <<>>) =>
        /\ pc = "done"
        /\ result = ""
        /\ calls = <<>>
        /\ Notices = {Len(log)}
        /\ log[Len(log)] = Rec("WARN", "No files matched the specified patterns", <<>>)

\* A run whose patterns match nothing.
EmptyListIsNoOpWitness ==
    /\ found.done /\ found.err = "" /\ found.files = <<>>
    /\ args.Files = "*.none"
    /\ pc = "done"

\* C10, errors before signing: a run whose signer construction failed (an
\* unknown backend builds no signer, a key error) or whose pattern resolution
\* failed returns an error and has made no SignFile call.
ErrorsBeforeSigning ==
    /\ (args.Backend \notin {BackendGoPGP, BackendGnuPG} /\ pc # "start")
           => signer = NoSigner /\ pc = "done"
    /\ (pc # "start" /\ signer = NoSigner) => pc = "done" /\ result # "" /\ calls = <<>>
    /\ (found.done /\ found.err # "") => pc = "done" /\ result # "" /\ calls = <<>>

\* A run with an unknown backend and a key the library could load, ended.
ErrorsBeforeSigningWitness ==
    /\ pc = "done"
    /\ args.Backend = "pgp"
    /\ args.PrivateKey = KeyPlain
    /\ result = "failed to create signer: unknown signer backend: pgp"

\* The list FindFiles returns for the include pattern at position i alone.
MatchesOf(i) == FindFiles(fs, query.workDir, <<query.patterns[i]>>, query.excludes).files

\* The match lists of the first n include patterns, one after the other.
RECURSIVE MatchesUpTo(_)
MatchesUpTo(n) == IF n = 0 THEN <<>> ELSE MatchesUpTo(n - 1) \o MatchesOf(n)

\* The elements of q at the positions of their first occurrence.
FirstOccurrences(q) ==
    SelectSeq([i \in DOMAIN q |-> [at |-> i, path |-> q[i]]],
              LAMBDA e : \A j \in 1..(e.at - 1) : q[j] # e.path)

PathsOf(q) == [i \in DOMAIN q |-> q[i].path]

\* C11, deduplication with first-seen order: the list FindFiles returns holds
\* no path twice, and is the per-pattern match lists, concatenated in the
\* order of the include list, with every path kept at its first occurrence.
DedupFirstSeen ==
    (found.done /\ found.err = "") =>
        /\ \A i, j \in DOMAIN found.files : i # j => found.files[i] # found.files[j]
        /\ found.files = PathsOf(FirstOccurrences(MatchesUpTo(Len(query.patterns))))

\* A plain and a recursive pattern match the same file, and the recursive
\* one, second in the list, adds files after it.
DedupFirstSeenWitness ==
    /\ found.done /\ found.err = ""
    /\ Len(query.patterns) = 2
    /\ ~Contains(query.patterns[1], "**") /\ Contains(query.patterns[2], "**")
    /\ Range(MatchesOf(1)) \cap Range(MatchesOf(2)) # {}
    /\ Len(found.files) > Len(MatchesOf(1))
    /\ Len(found.files) < Len(MatchesOf(1)) + Len(MatchesOf(2))

\* C12, directories never match: every path FindFiles returns is a regular
\* file of the tree, never a directory, whichever kind of include pattern
\* matched it.
OnlyRegularFiles ==
    (found.done /\ found.err = "") =>
        \A i \in DOMAIN found.files : ~IsDir(fs, found.files[i])

\* The include pattern of a call with one pattern, split at "**".
StarParts == StringsSplit(TrimSpace(query.patterns[1]), "**")

\* A call with the one include pattern prefix/**/suffix and no excludes.
IsPrefixStarSuffix ==
    /\ Len(query.patterns) = 1
    /\ query.excludes = <<>>
    /\ Len(StarParts) = 2
    /\ StarParts[1] = "" \/ HasSuffix(StarParts[1], Separator)
    /\ HasPrefix(StarParts[2], Separator) /\ Len(StarParts[2]) > 1

StarPrefix == TrimSuffix(StarParts[1], Separator)

StarSuffix == TrimPrefix(StarParts[2], Separator)

\* The directory workDir/prefix, as an absolute path.
StarRoot == Abs(fs, Join(EffectiveWorkDir, StarPrefix))

\* The regular files under the directory root, by absolute path.
RegularUnder(root) ==
    { f \in fs.files \ fs.gone : HasPrefix(f, root \o Separator) }

\* Whether the path rel is any number of directories, then a path that
\* matches suffix.
LevelsThenSuffix(rel, suffix) ==
    \E k \in 0..(Len(Elems(rel)) - 1) :
        isMatch(suffix, JoinWith(SubSeq(Elems(rel), k + 1, Len(Elems(rel))), Separator))

\* C13, the recursive wildcard matches zero or more directory levels: for the
\* pattern prefix/**/suffix FindFiles returns every regular file under
\* workDir/prefix whose path from there is any number of directories, then
\* a path matching suffix, and no other file.
RecursiveWildcard ==
    (found.done /\ IsPrefixStarSuffix) =>
        /\ found.err = ""
        /\ { Abs(fs, found.files[i]) : i \in DOMAIN found.files }
               = { f \in RegularUnder(StarRoot) :
                       LevelsThenSuffix(Drop(f, Len(StarRoot) + 1), StarSuffix) }

\* The positions of the include patterns the glob syntax rejects.
MalformedIncludes ==
    { i \in DOMAIN query.patterns : Match(TrimSpace(query.patterns[i]), "").err }

\* C14: a malformed include pattern, plain or recursive, makes FindFiles
\* fail with an error that names the pattern (the first such pattern of the
\* list), and no file list is returned.
MalformedIncludeFails ==
    (found.done /\ MalformedIncludes # {}) =>
        /\ found.err # ""
        /\ found.files = <<>>
        /\ Contains(found.err, TrimSpace(query.patterns[MinOrZero(MalformedIncludes)]))

\* The exclude patterns of the call that the glob syntax accepts.
WellFormedExcludes ==
    SelectSeq(query.excludes, LAMBDA e : ~Match(TrimSpace(e), "").err)

GoPGPConstructed == args.Backend = BackendGoPGP /\ pc # "start"

\* The construction of the signer failed with the error err.
ConstructionFailed(err) ==
    signer = NoSigner /\ pc = "done" /\ result = "failed to create signer: " \o err

\* C16, key-lock distinction in NewGoPGPSigner: the key is parsed, then
\* tested for being private, then unlocked if a passphrase is supplied, then
\* tested for being locked; a protected key with no passphrase fails with
\* the locked-key error, with a wrong passphrase with the unlock error, a
\* different one, and no signer is returned; a key without protection and no
\* passphrase is never sent to unlock.
KeyLockDistinction ==
    GoPGPConstructed =>
        /\ ~args.PrivateKey.valid =>
               ConstructionFailed("failed to parse private key: gopenpgp: error in reading key ring")
        /\ (args.PrivateKey.valid /\ ~args.PrivateKey.private) =>
               ConstructionFailed("provided key is not a private key")
        /\ (args.PrivateKey = KeyLocked /\ args.Passphrase = "") =>
               ConstructionFailed("private key is locked but no passphrase provided")
        /\ (args.PrivateKey = KeyLocked /\ args.Passphrase \notin {"", KeyLocked.protection}) =>
               ConstructionFailed("failed to unlock private key: gopenpgp: error in unlocking key")
        /\ (args.PrivateKey = KeyLocked /\ args.Passphrase = KeyLocked.protection) =>
               signer.backend = BackendGoPGP
        /\ (args.PrivateKey = KeyPlain /\ args.Passphrase = "") =>
               signer.backend = BackendGoPGP

\* A protected key and no passphrase: the locked-key error, and no signer.
KeyLockDistinctionWitness ==
    /\ GoPGPConstructed
    /\ args.PrivateKey = KeyLocked /\ args.Passphrase = ""
    /\ ConstructionFailed("private key is locked but no passphrase provided")

\* The run was given a protected key and not its passphrase.
PassphraseMissingOrWrong ==
    /\ args.PrivateKey.valid /\ args.PrivateKey.private
    /\ args.PrivateKey.protection # ""
    /\ args.Passphrase # args.PrivateKey.protection

\* C17: with either backend, constructing the signer with a protected key
\* and a wrong or missing passphrase fails, so no SignFile call is made and
\* none is the first to report the passphrase.
InitPolicyBothBackends ==
    (args.Backend \in {BackendGoPGP, BackendGnuPG} /\ PassphraseMissingOrWrong /\ pc # "start") =>
        /\ signer = NoSigner
        /\ pc = "done" /\ result # ""
        /\ calls = <<>>

\* The argument list GnuPGSigner builds for the file and the options of the
\* call at position i, were its passphrase q.
ArgvWith(q, i) == gpgCommand(q, calls[i].file, calls[i].opts).argv

\* C18, the gpg command line never carries the passphrase: the argument
\* list of a call is the one built for any other non-empty passphrase (for
\* an empty one, the one built for none), no argument holds the passphrase,
\* and a non-empty passphrase is what gpg is given on its standard input,
\* which the arguments tell it to read.
NoPassphraseInArgs ==
    \A i \in GpgCalls :
        IF signer.passphrase = ""
        THEN /\ calls[i].cmd.argv = ArgvWith("", i)
             /\ "--passphrase-fd" \notin Range(calls[i].cmd.argv)
        ELSE /\ \A q \in Passphrases \ {""} : calls[i].cmd.argv = ArgvWith(q, i)
             /\ \A j \in DOMAIN calls[i].cmd.argv :
                    ~Contains(calls[i].cmd.argv[j], signer.passphrase)
             /\ calls[i].cmd.stdin = signer.passphrase
             /\ \E j \in 1..(Len(calls[i].cmd.argv) - 1) :
                    /\ calls[i].cmd.argv[j] = "--passphrase-fd"
                    /\ calls[i].cmd.argv[j + 1] = "0"

\* gpg signed a file with a protected key, given its passphrase.
NoPassphraseInArgsWitness ==
    \E i \in GpgCalls :
        /\ calls[i].err = ""
        /\ signer.key = KeyLocked
        /\ signer.passphrase = KeyLocked.protection
        /\ calls[i].cmd.stdin = KeyLocked.protection

\* The step is a SignFile call that returned nil.
SignedOne == Len(calls') = Len(calls) + 1 /\ calls'[Len(calls')].err = ""

\* The call the step made, and the absolute path of what it wrote.
NewCall == calls'[Len(calls')]

NewArtifact == Abs(fs, NewCall.written)

\* C19, the side effects of one successful SignFile call: one file is
\* written, at the path derived from the input path (by getOutputPath for
\* the library-backed signer); the input file keeps its bytes, and no other
\* file or directory is created, changed or removed.
SignFileFrame ==
    [][SignedOne =>
          /\ fs'.files = fs.files \cup {NewArtifact}
          /\ NewArtifact # Abs(fs, NewCall.file)
          /\ HasPrefix(NewCall.written, NewCall.file)
          /\ NewCall.backend = BackendGoPGP =>
                 NewCall.written = getOutputPath(NewCall.file, NewCall.opts)
          /\ \A q \in fs.files \ {NewArtifact} : fs'.data[q] = fs.data[q]
          /\ fs'.data[Abs(fs, NewCall.file)] = fs.data[Abs(fs, NewCall.file)]
          /\ fs'.dirs = fs.dirs /\ fs'.gone = fs.gone /\ fs'.cwd = fs.cwd
          /\ keyring' = keyring
    ]_vars

\* Three files signed by the library-backed signer: three files more in the
\* tree, the others as they were.
SignFileFrameWitness ==
    /\ Written(BackendGoPGP) = 1..3
    /\ Cardinality(fs.files) = Cardinality(TreeRun.files) + 3
    /\ \A q \in TreeRun.files : fs.data[q] = TreeRun.data[q]

\* The run of the end-to-end scenario: dist/a.tar.gz and dist/b.sha256 in
\* the working directory, include dist/*, exclude *.sha256, a detached
\* armored signature by the library-backed signer.
IsEndToEnd ==
    /\ args.Files = "dist/*" /\ args.Excludes = "*.sha256"
    /\ optsOf(args) = DetachedArmored
    /\ args.Backend = BackendGoPGP

\* The artifacts in the tree for the file at path: the files whose path is
\* the file's and a suffix.
ArtifactsOf(path) == { q \in fs.files : q # path /\ HasPrefix(q, path) }

\* C20, end to end: the resolved list is exactly dist/a.tar.gz; after the
\* run dist/a.tar.gz.asc exists and is the armored detached signature of
\* dist/a.tar.gz, dist/a.tar.gz is unchanged, and there is no artifact for
\* dist/b.sha256.
EndToEnd ==
    IsEndToEnd =>
        /\ found.done => found.err = "" /\ found.files = <<"/w/dist/a.tar.gz">>
        /\ (pc = "done" /\ result = "" /\ found.done) =>
               /\ ArtifactsOf("/w/dist/a.tar.gz") = {"/w/dist/a.tar.gz.asc"}
               /\ fs.data["/w/dist/a.tar.gz.asc"]
                      = createDetachedSignature(TreeRun.data["/w/dist/a.tar.gz"], TRUE)
        /\ fs.data["/w/dist/a.tar.gz"] = TreeRun.data["/w/dist/a.tar.gz"]
        /\ fs.data["/w/dist/b.sha256"] = TreeRun.data["/w/dist/b.sha256"]
        /\ ArtifactsOf("/w/dist/b.sha256") = {}

\* The scenario has run to its end.
EndToEndWitness ==
    /\ IsEndToEnd
    /\ pc = "done" /\ result = ""
    /\ found.files = <<"/w/dist/a.tar.gz">>
    /\ "/w/dist/a.tar.gz.asc" \in fs.files

\* C21, options pass-through: every SignFile call of a run is given the
\* triple (Armor, DetachSign, ClearSign) of the inputs, as it is and the
\* same for every file.
OptionsPassThrough ==
    \A i \in DOMAIN calls :
        /\ calls[i].opts.Armor = args.Armor
        /\ calls[i].opts.DetachSign = args.DetachSign
        /\ calls[i].opts.ClearSign = args.ClearSign

\* Two files signed with ClearSign set and Armor not.
OptionsPassThroughWitness ==
    /\ Len(calls) >= 2
    /\ args.ClearSign /\ ~args.Armor
    /\ calls[1].opts = calls[2].opts
    /\ calls[2].opts.ClearSign /\ ~calls[2].opts.Armor

\* The lines of an input that are kept: not empty once trimmed.
KeptLines(input) ==
    { i \in DOMAIN StringsSplit(input, "\n") : TrimSpace(StringsSplit(input, "\n")[i]) # "" }

\* out is, in the order of the input, the kept lines of the input, trimmed.
ParsedFrom(input, out) ==
    /\ Len(out) = Cardinality(KeptLines(input))
    /\ \A k \in DOMAIN out :
          \E i \in KeptLines(input) :
              /\ Cardinality({ j \in KeptLines(input) : j <= i }) = k
              /\ out[k] = TrimSpace(StringsSplit(input, "\n")[i])

\* No entry of out is empty or begins or ends with white space.
EntriesTrimmed(out) ==
    \A k \in DOMAIN out :
        /\ out[k] # ""
        /\ ~IsSpace(At(out[k], 1))
        /\ ~IsSpace(At(out[k], Len(out[k])))

\* C22, multi-line input parsing: the patterns and the excludes run parses
\* are, in input order, the lines that are not empty once trimmed, each
\* trimmed; no entry is empty or keeps white space at either end; an input
\* of blank lines only gives no entry.
ParsedLines ==
    found.done =>
        /\ ParsedFrom(args.Files, query.patterns)
        /\ ParsedFrom(args.Excludes, query.excludes)
        /\ EntriesTrimmed(query.patterns)
        /\ EntriesTrimmed(query.excludes)
        /\ (KeptLines(args.Files) = {} => query.patterns = <<>>)

\* An input with a blank line between two patterns, the second written with
\* white space around it, has been parsed to the two patterns.
ParsedLinesWitness ==
    /\ found.done
    /\ args.Files = "*.t\n\n  d/* \n"
    /\ query.patterns = <<"*.t", "d/*">>

\* An input of blank lines only has been parsed to no pattern.
ParsedBlankWitness ==
    /\ found.done
    /\ args.Files = " \n\t\n"
    /\ query.patterns = <<>>

\* The finder has answered in this run, for the query of the run before, on
\* the tree the run before met: TreeRun, to which neither run has added.
SameCallAgain ==
    /\ prevRun.ended /\ prevRun.found.done
    /\ found.done
    /\ query = prevRun.query
    /\ fs = TreeRun

WithoutSecrets(a) ==
    [a EXCEPT !.PrivateKey = KeyGarbage,
              !.Passphrase = IF a.Passphrase = "" THEN "" ELSE "set"]

\* Two runs have ended whose inputs differ in the value of the key or of a
\* non-empty passphrase, and in nothing else.
SecretsOnlyDiffer ==
    /\ BothEnded
    /\ args # prevRun.args
    /\ WithoutSecrets(args) = WithoutSecrets(prevRun.args)

\* The text s holds the key or the passphrase of the run.
HoldsSecret(s) ==
    \/ Contains(s, args.PrivateKey.text)
    \/ args.Passphrase # "" /\ Contains(s, args.Passphrase)

\* C24 as stated: the records of two runs that differ only in the value of
\* the key or of a non-empty passphrase are the same.  The two runs are
\* made with the library-backed signer, meet the same tree and reach no
\* SignFile call, so that nothing but the key and the passphrase tells them
\* apart.
LogSameForAnySecrets ==
    (/\ SecretsOnlyDiffer
     /\ args.Backend = BackendGoPGP
     /\ args.Passphrase = ""
     /\ fs = TreeRun /\ calls = <<>> /\ prevRun.calls = <<>>)
        => log = prevRun.log

\* The two runs took the same course: both got their signer or both did
\* not, the finder answered the same, and the SignFile calls succeeded and
\* failed alike.
SameCourse ==
    /\ HasPrefix(result, "failed to create signer: ")
           = HasPrefix(prevRun.result, "failed to create signer: ")
    /\ found = prevRun.found
    /\ Len(calls) = Len(prevRun.calls)
    /\ \A i \in DOMAIN calls : (calls[i].err = "") = (prevRun.calls[i].err = "")

\* C24, secrets and the log: no record of the run, and no error main logs
\* for it, holds the key or the passphrase; and the records of two runs that
\* differ only in the value of the key or of a non-empty passphrase are the
\* same whenever the two runs took the same course.
SecretsNotLogged ==
    /\ \A i \in DOMAIN log :
          /\ ~HoldsSecret(log[i].msg)
          /\ \A j \in DOMAIN log[i].attrs : ~HoldsSecret(log[i].attrs[j][2])
    /\ ~HoldsSecret(result)
    /\ (SecretsOnlyDiffer /\ SameCourse) => log = prevRun.log

\* Two runs with different non-empty passphrases have both signed a file
\* and logged the same records.
SecretsNotLoggedWitness ==
    /\ SecretsOnlyDiffer /\ SameCourse
    /\ args.Passphrase # prevRun.args.Passphrase
    /\ Len(calls) >= 1 /\ calls[1].err = ""
    /\ log = prevRun.log

\* C25, tolerated race in resolution: a path that a glob or the directory
\* walk enumerated and that cannot be stat-ed is left out of the result of a
\* FindFiles call that succeeds: every path returned can be stat-ed.
UnstatableLeftOut ==
    (found.done /\ found.err = "") =>
        \A i \in DOMAIN found.files : StatOK(fs, found.files[i])

\* A plain pattern and a walk have met the path that cannot be stat-ed and
\* left it out: the call succeeded with the other files.
UnstatableLeftOutByWalk ==
    /\ found.done /\ found.err = ""
    /\ fs.gone # {}
    /\ \A i \in DOMAIN query.patterns : Len(StringsSplit(query.patterns[i], "**")) <= 2
    /\ Len(found.files) >= 1
    /\ \A i \in DOMAIN found.files : StatOK(fs, found.files[i])

\* The SignFile calls of the process-backed signer in which gpg exited with a
\* status other than 0.
GpgFailures == { i \in GpgCalls : calls[i].cmd.argv # <<>> /\ calls[i].written = "" }

\* C26 as stated: a gpg that exits with a status other than 0 makes
\* GnuPGSigner.SignFile return an error, and the error holds what the
\* process wrote as its diagnostic.  (A failed call ends the run, so the tree
\* and the trust store are those of the call.)
GpgErrorWrapsDiagnostic ==
    \A i \in GpgFailures :
        /\ calls[i].err # ""
        /\ Contains(calls[i].err,
                    gpgDiagnostic(fs, keyring, calls[i].cmd, calls[i].file))

\* What does hold: the call returns an error, which names the exit status.
GpgErrorNamesExitStatus ==
    \A i \in GpgFailures :
        /\ HasPrefix(calls[i].err, "gpg command failed: ")
        /\ Contains(calls[i].err, "exit status")

\* C27, include/exclude symmetry: a FindFiles call whose one exclude pattern
\* is its one include pattern returns no file.
IncludeExcludeSymmetry ==
    (found.done /\ Len(query.patterns) = 1 /\ query.excludes = query.patterns) =>
        found.files = <<>>

\* The symmetry does hold for the patterns without a directory before "**":
\* the calls of SpecSymmetry with such a pattern return no file.
SymmetryWithoutPrefix ==
    (/\ found.done /\ Len(query.patterns) = 1 /\ query.excludes = query.patterns
     /\ ~Contains(StringsSplit(query.patterns[1], "**")[1], "/")) =>
        found.files = <<>>

\* C28, extension and encoding agree: the artifact GoPGPSigner.SignFile
\* writes is named ".asc" exactly when its content is ASCII-armored, and
\* ".sig" or ".gpg" exactly when it is binary, for every SignOptions triple.
ExtensionTellsEncoding ==
    \A i \in Written(BackendGoPGP) :
        /\ HasSuffix(calls[i].written, ".asc") <=> Artifact(i).armored
        /\ (HasSuffix(calls[i].written, ".sig") \/ HasSuffix(calls[i].written, ".gpg"))
               <=> ~Artifact(i).armored

\* The same for the triples other than (Armor false, DetachSign true,
\* ClearSign true), for which it holds.
ExtensionTellsEncodingElsewhere ==
    (args.Armor \/ ~args.DetachSign \/ ~args.ClearSign) => ExtensionTellsEncoding

\* C29, no artifact overwrites a file the run signs: the path an artifact
\* of a run is written to is never the path of a file of the list the run
\* resolved.
ArtifactsApartFromInputs ==
    \A i \in DOMAIN calls :
        calls[i].written # "" =>
            \A j \in DOMAIN found.files : found.files[j] # calls[i].written

\* The same in a run on a tree no run has written to, where it holds.
ArtifactsApartOnFreshTree ==
    ~prevRun.ended => ArtifactsApartFromInputs

\* The run on the tree TreeRun and the empty trust store has ended and
\* signed nothing: no file matched, or the patterns could not be resolved.
NothingToSign ==
    /\ ~prevRun.ended
    /\ pc = "done"
    /\ found.done
    /\ found.err # "" \/ found.files = <<>>

\* C30 as stated: a run that signs nothing has changed nothing outside the
\* process, neither the tree nor the gpg trust store, with either backend.
NothingSignedNothingChanged ==
    NothingToSign => fs = TreeRun /\ keyring = {}

\* C30, a run that signs nothing: it has made no call and left the tree as
\* it was; with the library-backed signer the trust store is as it was too,
\* with the process-backed signer the trust store holds the key of the run
\* and nothing else.
NothingSignedFrame ==
    NothingToSign =>
        /\ calls = <<>>
        /\ fs = TreeRun
        /\ args.Backend = BackendGoPGP => keyring = {}
        /\ args.Backend = BackendGnuPG => keyring = {args.PrivateKey}

\* A run of each kind has ended: the process-backed signer, no file matched.
NothingSignedFrameWitness ==
    /\ NothingToSign
    /\ args.Backend = BackendGnuPG
    /\ found.err = "" /\ found.files = <<>>
    /\ fs = TreeRun
    /\ keyring = {args.PrivateKey}

=============================================================================
